---- MODULE Spec2Model ----
(***************************************************************************)
(* ClipToTrip: the process-tiktok edge function                            *)
(* (supabase/functions/process-tiktok/index.ts), the URL-analysis variant  *)
(* of its generateItinerary, the Index page and VideoProcessor.            *)
(*                                                                         *)
(* Specifications over one set of variables:                               *)
(*   ParserSpec    the text parsing done by generateItinerary, applied to  *)
(*                 itinerary texts assembled from a set of text pieces;    *)
(*   Spec          one request through the serve handler;                  *)
(*   DownloadSpec  two requests inside downloadVideoWithYtDlp at once;     *)
(*   VariantSpec   the parsing of the URL-analysis handler's variant;      *)
(*   UrlSpec       cleanTikTokUrl applied to a string and to its results;  *)
(*   IndexSpec     the Index page: submit, selects, tabs, saved list       *)
(*                 (FairIndexSpec: every call that went out ends);         *)
(*   ProgressSpec  the interval of VideoProcessor.                         *)
(*                                                                         *)
(* A JavaScript string is a sequence of one-character strings; the bullet  *)
(* U+2022 is written Bullet.  An Error message is a sequence of words.     *)
(***************************************************************************)
EXTENDS Integers, Sequences, FiniteSets, TLC

VARIABLES
    draft,      \* ParserSpec: the pieces of the language model's answer
    location,   \* ParserSpec: videoAnalysis.location
    gen,        \* ParserSpec: what generateItinerary did with the text
    req,        \* Spec: the request (method, body, Authorization header)
    env,        \* Spec: which Deno.env variables are set
    pc,         \* Spec: the handler's position
    user,       \* Spec: the user resolved by supabase.auth.getUser
    video,      \* Spec: the downloaded video bytes
    analysis,   \* Spec: videoAnalysis
    itinerary,  \* Spec: the value generateItinerary returned
    calls,      \* Spec: the outbound calls made so far, in order
    outcomes,   \* Spec: how each of these calls ended, in the same order
    rows,       \* Spec: the rows inserted into itineraries
    responses,  \* Spec: the Responses returned so far
    now,        \* DownloadSpec: Date.now(), in milliseconds
    tmp,        \* DownloadSpec: the files of /tmp, by the number in their name
    dl,         \* DownloadSpec: the two requests inside downloadVideoWithYtDlp
    urlParts,   \* UrlSpec: the parts of the string given to cleanTikTokUrl
    cleaned,    \* UrlSpec: what cleanTikTokUrl returned, applied again and again
    signedIn,          \* IndexSpec: useAuth() has given a user
    tiktokUrl,         \* IndexSpec: the text of the URL field
    currentItinerary,  \* IndexSpec: the id of the itinerary shown, Null for null
    savedItineraries,  \* IndexSpec: the ids of the saved list, newest first
    isProcessing,      \* IndexSpec
    activeTab,         \* IndexSpec
    toasts,            \* IndexSpec: the titles of the toasts shown, in order
    submit,            \* IndexSpec: where the running handleUrlSubmit stands
    selects,           \* IndexSpec: the selects of fetchSavedItineraries
    table,             \* IndexSpec: the ids of the user's rows in itineraries
    progress,          \* ProgressSpec: VideoProcessor's progress
    currentStep,       \* ProgressSpec: VideoProcessor's currentStep
    ticks              \* ProgressSpec: how often the interval has fired

parserVars == <<draft, location, gen>>
handlerVars ==
    <<req, env, pc, user, video, analysis, itinerary, calls, outcomes, rows,
      responses>>
downloadVars == <<now, tmp, dl>>
urlVars == <<urlParts, cleaned>>
pageVars ==
    <<signedIn, tiktokUrl, currentItinerary, savedItineraries, isProcessing,
      activeTab, toasts, submit, selects, table>>
timerVars == <<progress, currentStep, ticks>>
extraVars == <<urlVars, pageVars, timerVars>>
vars == <<draft, location, gen, req, env, pc, user, video, analysis, itinerary,
          calls, outcomes, rows, responses, now, tmp, dl, urlParts,
          cleaned, signedIn, tiktokUrl, currentItinerary, savedItineraries,
          isProcessing, activeTab, toasts, submit, selects, table, progress,
          currentStep, ticks>>

-----------------------------------------------------------------------------
(* Characters and strings *)

Bullet == "U+2022"
NL == "\n"

Min(a, b) == IF a < b THEN a ELSE b

IsDigit(c) == c \in {"0", "1", "2", "3", "4", "5", "6", "7", "8", "9"}

\* \s of a JavaScript regular expression, and the characters trim() removes
IsSpace(c) == c \in {" ", "\n", "\t", "\r"}

\* the /i flag, for the letters of "day"
Lower(c) == CASE c = "D" -> "d" [] c = "A" -> "a" [] c = "Y" -> "y"
              [] c = "S" -> "s" [] OTHER -> c

DigitChars == <<"0", "1", "2", "3", "4", "5", "6", "7", "8", "9">>

RECURSIVE NumStr(_)
\* `${n}` for a non-negative integer n
NumStr(n) == IF n < 10 THEN <<DigitChars[n + 1]>>
             ELSE NumStr(n \div 10) \o <<DigitChars[(n % 10) + 1]>>

RECURSIVE DigitsEnd(_, _)
\* the position after the greedy \d* starting at i
DigitsEnd(t, i) == IF i <= Len(t) /\ IsDigit(t[i]) THEN DigitsEnd(t, i + 1) ELSE i

RECURSIVE SpaceEnd(_, _)
\* the position after the greedy \s* starting at i
SpaceEnd(t, i) == IF i <= Len(t) /\ IsSpace(t[i]) THEN SpaceEnd(t, i + 1) ELSE i

\* /day/i matches at i
IsDayAt(t, i) ==
    /\ i >= 1
    /\ i + 2 <= Len(t)
    /\ Lower(t[i]) = "d"
    /\ Lower(t[i + 1]) = "a"
    /\ Lower(t[i + 2]) = "y"

RECURSIVE TrimStart(_)
TrimStart(s) == IF s # <<>> /\ IsSpace(Head(s)) THEN TrimStart(Tail(s)) ELSE s

RECURSIVE TrimEnd(_)
TrimEnd(s) == IF s # <<>> /\ IsSpace(s[Len(s)])
              THEN TrimEnd(SubSeq(s, 1, Len(s) - 1)) ELSE s

\* String.prototype.trim
Trim(s) == TrimEnd(TrimStart(s))

RECURSIVE SplitOn(_, _, _, _)
\* s.split(sep) for a one-character separator: p starts the current piece, q scans
SplitOn(s, sep, p, q) ==
    IF q > Len(s) THEN <<SubSeq(s, p, Len(s))>>
    ELSE IF s[q] = sep THEN <<SubSeq(s, p, q - 1)>> \o SplitOn(s, sep, q + 1, q + 1)
    ELSE SplitOn(s, sep, p, q + 1)

SplitLines(s) == SplitOn(s, NL, 1, 1)

Includes(s, c) == \E k \in 1..Len(s) : s[k] = c

-----------------------------------------------------------------------------
(* generateItinerary: parsing the language model's text *)

DayLoopLimit == 8
MaxActivities == 4
MinDays == 3

\* variant: /(\d+)days?/i, no blanks between the number and "day"
DurationMatchAt_NoBlanks(t, i) ==
    /\ i <= Len(t)
    /\ IsDigit(t[i])
    /\ IsDayAt(t, DigitsEnd(t, i))

\* /(\d+)\s*days?/i matches with its first character at i
DurationMatchAt(t, i) ==
    /\ i <= Len(t)
    /\ IsDigit(t[i])
    /\ IsDayAt(t, SpaceEnd(t, DigitsEnd(t, i)))

\* itineraryText.match(/(\d+)\s*days?/i): group 1 of the leftmost match, <<>> for null
durationMatch(t) ==
    IF \E i \in 1..Len(t) : DurationMatchAt(t, i)
    THEN LET i == CHOOSE i \in 1..Len(t) :
                    /\ DurationMatchAt(t, i)
                    /\ \A j \in 1..(i - 1) : ~DurationMatchAt(t, j)
         IN  SubSeq(t, i, DigitsEnd(t, i) - 1)
    ELSE <<>>

\* const duration = durationMatch ? `${durationMatch[1]} Days` : '5 Days'
durationOf(t) ==
    LET m == durationMatch(t)
    IN  IF m # <<>> THEN m \o <<" ", "D", "a", "y", "s">>
        ELSE <<"5", " ", "D", "a", "y", "s">>

\* /day\s*\d+/i matches with its first character at i
DayMarkerAt(t, i) ==
    /\ IsDayAt(t, i)
    /\ SpaceEnd(t, i + 3) <= Len(t)
    /\ IsDigit(t[SpaceEnd(t, i + 3)])

DayMarkerEnd(t, i) == DigitsEnd(t, SpaceEnd(t, i + 3))

RECURSIVE SplitDayMarkers(_, _, _)
\* itineraryText.split(/day\s*\d+/i): p starts the current fragment, q scans
SplitDayMarkers(t, p, q) ==
    IF q > Len(t) THEN <<SubSeq(t, p, Len(t))>>
    ELSE IF DayMarkerAt(t, q)
         THEN <<SubSeq(t, p, q - 1)>>
              \o SplitDayMarkers(t, DayMarkerEnd(t, q), DayMarkerEnd(t, q))
    ELSE SplitDayMarkers(t, p, q + 1)

dayMarkers(t) == SplitDayMarkers(t, 1, 1)

\* dayContent.split('\n').filter(line => line.trim())
linesOf(dayContent) ==
    SelectSeq(SplitLines(dayContent), LAMBDA line : Trim(line) # <<>>)

\* lines[0]?.replace(/[:\-]/g, '').trim()
titleText(lines) ==
    IF lines = <<>> THEN <<>>
    ELSE Trim(SelectSeq(lines[1], LAMBDA c : c \notin {":", "-"}))

defaultTitle(i, loc) ==
    <<"D", "a", "y", " ">> \o NumStr(i) \o <<" ", "i", "n", " ">> \o loc

\* variant: the bullet is not taken for a marker
hasMarker_NoBullet(line) == Includes(line, "-") \/ Includes(line, "*")

hasMarker(line) ==
    Includes(line, "-") \/ Includes(line, Bullet) \/ Includes(line, "*")

RECURSIVE StripMarkers(_)
\* line.replace(/^[\-•\*\s]+/, '')
StripMarkers(line) ==
    IF line # <<>> /\ (Head(line) \in {"-", Bullet, "*"} \/ IsSpace(Head(line)))
    THEN StripMarkers(Tail(line)) ELSE line

activityText(line) == Trim(StripMarkers(line))

\* variant: no .slice(0, 4)
sliceActivities_NoCap(acts) == acts

\* .slice(0, 4)
sliceActivities(acts) == SubSeq(acts, 1, Min(MaxActivities, Len(acts)))

\* variant: lines.filter(...) without .slice(1), the title line included
extractActivities_WithTitle(lines) ==
    sliceActivities(
        SelectSeq([k \in 1..Len(SelectSeq(lines, hasMarker)) |->
                      activityText(SelectSeq(lines, hasMarker)[k])],
                  LAMBDA activity : Len(activity) > 0))

\* lines.slice(1).filter(...).map(...).filter(...).slice(0, 4)
extractActivities(lines) ==
    LET rest == IF lines = <<>> THEN <<>> ELSE Tail(lines)
    IN  sliceActivities(
            SelectSeq([k \in 1..Len(SelectSeq(rest, hasMarker)) |->
                          activityText(SelectSeq(rest, hasMarker)[k])],
                      LAMBDA activity : Len(activity) > 0))

\* the three activities pushed when a fragment yields none
fallbackActivities(loc) ==
    << <<"E", "x", "p", "l", "o", "r", "e", " ">> \o loc
           \o <<" ", "h", "i", "g", "h", "l", "i", "g", "h", "t", "s">>,
       <<"E", "x", "p", "e", "r", "i", "e", "n", "c", "e", " ", "l", "o", "c",
            "a", "l", " ", "c", "u", "l", "t", "u", "r", "e", " ", "a", "n", "d",
            " ", "c", "u", "i", "s", "i", "n", "e">>,
       <<"V", "i", "s", "i", "t", " ", "a", "t", "t", "r", "a", "c", "t", "i",
            "o", "n", "s", " ", "m", "e", "n", "t", "i", "o", "n", "e", "d", " ",
            "i", "n", " ", "t", "h", "e", " ", "v", "i", "d", "e", "o">> >>

activitiesOrFallback(acts, loc) ==
    IF Len(acts) = 0 THEN fallbackActivities(loc) ELSE acts

\* variant: day numbers from 0
dayNumber_FromZero(i) == i - 1

\* day: i
dayNumber(i) == i

\* one iteration of the for loop, for fragment dayMarkers[i]
parseDay(i, fragment, loc) ==
    LET lines == linesOf(Trim(fragment))
        t == titleText(lines)
        activities == extractActivities(lines)
    IN  [day |-> dayNumber(i),
         title |-> IF t # <<>> THEN t ELSE defaultTitle(i, loc),
         activities |-> activitiesOrFallback(activities, loc)]

\* variant: for (let i = 1; i < dayMarkers.length; i++)
parsedCount_NoCap(t) == Len(dayMarkers(t)) - 1

\* the number of iterations of for (let i = 1; i < Math.min(dayMarkers.length, 8); i++)
parsedCount(t) == Min(Len(dayMarkers(t)), DayLoopLimit) - 1

parsedDays(t, loc) ==
    LET dm == dayMarkers(t)
    IN  [i \in 1..parsedCount(t) |-> parseDay(i, dm[i + 1], loc)]

\* variant: the padding days are titled like the parsed days without title
syntheticTitle_AsDefault(dayNum, loc) == defaultTitle(dayNum, loc)

syntheticTitle(dayNum, loc) ==
    <<"D", "a", "y", " ">> \o NumStr(dayNum)
        \o <<" ", "-", " ", "E", "x", "p", "l", "o", "r", "i", "n", "g", " ">> \o loc

\* variant: the padding days get the list pushed for a fragment without activities
syntheticActivities_AsFallback(loc) == fallbackActivities(loc)

syntheticActivities(loc) ==
    << <<"D", "i", "s", "c", "o", "v", "e", "r", " ">> \o loc
           \o <<" ", "a", "t", "t", "r", "a", "c", "t", "i", "o", "n", "s">>,
       <<"L", "o", "c", "a", "l", " ", "d", "i", "n", "i", "n", "g", " ", "e",
            "x", "p", "e", "r", "i", "e", "n", "c", "e", "s">>,
       <<"C", "u", "l", "t", "u", "r", "a", "l", " ", "a", "c", "t", "i", "v",
            "i", "t", "i", "e", "s">>,
       <<"R", "e", "l", "a", "x", "a", "t", "i", "o", "n", " ", "a", "n", "d",
            " ", "e", "x", "p", "l", "o", "r", "a", "t", "i", "o", "n", " ", "t",
            "i", "m", "e">> >>

syntheticDay(dayNum, loc) ==
    [day |-> dayNum,
     title |-> syntheticTitle(dayNum, loc),
     activities |-> syntheticActivities(loc)]

\* variant: if (days.length < 3) instead of while
padDays_Once(days, loc) ==
    IF Len(days) < MinDays THEN Append(days, syntheticDay(Len(days) + 1, loc))
    ELSE days

RECURSIVE padDays(_, _)
\* while (days.length < 3) { const dayNum = days.length + 1; days.push(...) }
padDays(days, loc) ==
    IF Len(days) < MinDays
    THEN padDays(Append(days, syntheticDay(Len(days) + 1, loc)), loc)
    ELSE days

NoContentError == <<"No", "itinerary", "content", "generated">>

\* variant: if (!itineraryText.trim()) throw
textRejected_Blank(t) == Trim(t) = <<>>

\* if (!itineraryText) throw
textRejected(t) == t = <<>>

\* generateItinerary from the received itineraryText on
itineraryFromText(t, loc) ==
    IF textRejected(t)
    THEN [status |-> "thrown", error |-> NoContentError,
          duration |-> <<>>, days |-> <<>>]
    ELSE [status |-> "returned", error |-> <<>>,
          duration |-> durationOf(t),
          days |-> padDays(parsedDays(t, loc), loc)]

-----------------------------------------------------------------------------
(* ParserSpec: generateItinerary's parsing applied to assembled texts *)

MaxPieces == 4

\* "Day 1: Ab"
PieceHeader == <<"D", "a", "y", " ", "1", ":", " ", "A", "b">>
\* "Day 5: c-d"
PieceHeaderHyphen == <<"D", "a", "y", " ", "5", ":", " ", "c", "-", "d">>
\* "- e" and, on the next line, a bullet item "f"
PieceTwoItems == <<"-", " ", "e", "\n", Bullet, " ", "f">>
\* "* g"
PieceStarItem == <<"*", " ", "g">>
\* "7 DAYS" and, on the next line, " - "
PieceSevenDays == <<"7", " ", "D", "A", "Y", "S", "\n", " ", "-", " ">>
\* "5day2Day 3"
PieceMarkers == <<"5", "d", "a", "y", "2", "D", "a", "y", " ", "3">>
\* an empty line
PieceBlank == <<>>
Pieces == {PieceHeader, PieceHeaderHyphen, PieceTwoItems, PieceStarItem,
           PieceSevenDays, PieceMarkers, PieceBlank}

Locations == {<<"B", "a", "l", "i">>, <<"R", "i", "o">>}

RECURSIVE JoinLines(_)
\* the pieces, one after the other, separated by line breaks
JoinLines(ps) ==
    IF ps = <<>> THEN <<>>
    ELSE IF Len(ps) = 1 THEN ps[1]
    ELSE ps[1] \o <<NL>> \o JoinLines(Tail(ps))

\* data.choices[0]?.message?.content
itineraryText == JoinLines(draft)

Pending == [status |-> "pending", error |-> <<>>, duration |-> <<>>, days |-> <<>>]

NoAnalysis ==
    [transcription |-> "", caption |-> "", screenText |-> "", location |-> <<>>]

\* no video bytes yet
NoVideo == [source |-> "none", url |-> <<>>]

NoItinerary == [title |-> <<>>, location |-> <<>>, duration |-> <<>>, content |-> <<>>]

\* the videoUrl of a body that has none: not a string
Undefined == <<"undefined">>

\* no string has been given to cleanTikTokUrl
NoUrl ==
    [scheme |-> <<>>, slashes |-> <<>>, host |-> <<>>, port |-> <<>>,
     path |-> <<>>, query |-> <<>>, fragment |-> <<>>]

HandlerIdle ==
    /\ req = [method |-> "NONE", json |-> FALSE, videoUrl |-> Undefined,
              auth |-> "null"]
    /\ env = {}
    /\ pc = "idle"
    /\ user = "unknown"
    /\ video = NoVideo
    /\ analysis = NoAnalysis
    /\ itinerary = NoItinerary
    /\ calls = <<>>
    /\ outcomes = <<>>
    /\ rows = <<>>
    /\ responses = <<>>

\* no request is inside downloadVideoWithYtDlp
DownloadIdle ==
    /\ now = 0
    /\ tmp = <<>>
    /\ dl = <<>>

UrlIdle ==
    /\ urlParts = NoUrl
    /\ cleaned = <<>>

\* useState(null)
Null == 0

\* the Index page as first rendered, before useAuth() has a user
PageIdle ==
    /\ signedIn = FALSE
    /\ tiktokUrl = <<>>
    /\ currentItinerary = Null
    /\ savedItineraries = <<>>
    /\ isProcessing = FALSE
    /\ activeTab = "process"
    /\ toasts = <<>>
    /\ submit = "idle"
    /\ selects = <<>>
    /\ table = {}

\* VideoProcessor as mounted
TimerIdle ==
    /\ progress = 0
    /\ currentStep = 0
    /\ ticks = 0

ExtraIdle ==
    /\ UrlIdle
    /\ PageIdle
    /\ TimerIdle

ParserInit ==
    /\ draft = <<>>
    /\ location = <<>>
    /\ gen = Pending
    /\ HandlerIdle
    /\ DownloadIdle
    /\ ExtraIdle

\* the language model's answer grows by one piece
AppendPiece(p) ==
    /\ gen.status = "pending"
    /\ Len(draft) < MaxPieces
    /\ draft' = Append(draft, p)
    /\ UNCHANGED <<location, gen>>
    /\ UNCHANGED handlerVars
    /\ UNCHANGED downloadVars
    /\ UNCHANGED extraVars

\* generateItinerary runs on the answer
Generate(loc) ==
    /\ gen.status = "pending"
    /\ location' = loc
    /\ gen' = itineraryFromText(itineraryText, loc)
    /\ UNCHANGED draft
    /\ UNCHANGED handlerVars
    /\ UNCHANGED downloadVars
    /\ UNCHANGED extraVars

ParserNext ==
    \/ \E p \in Pieces : AppendPiece(p)
    \/ \E loc \in Locations : Generate(loc)

ParserSpec == ParserInit /\ [][ParserNext]_vars

-----------------------------------------------------------------------------
(* Spec: one request through the serve handler *)

Methods == {"OPTIONS", "POST"}

\* the videoUrl of the JSON body: absent, empty, or a URL
VideoUrls ==
    {Undefined, <<>>,
     <<"h", "t", "t", "p", "s", ":", "/", "/", "w", "w", "w", ".", "t", "i",
         "k", "t", "o", "k", ".", "c", "o", "m", "/", "@", "u", "/", "v", "i",
         "d", "e", "o", "/", "1", "?", "x", "=", "1">>,
     <<"h", "t", "t", "p", "s", ":", "/", "/", "v", "m", ".", "t", "i", "k",
         "t", "o", "k", ".", "c", "o", "m", "/", "a", "b", "c">>}

\* req.headers.get('Authorization'): null, or a bearer token
AuthHeaders == {"null", "Bearer u1", "Bearer expired"}

EnvNames == {"SUPABASE_URL", "SUPABASE_ANON_KEY", "OPENAI_API_KEY",
             "GOOGLE_CLOUD_API_KEY"}

\* the non-2xx statuses an upstream service answers with
ErrorStatuses == {"403", "500"}

\* the message of an exception thrown by fetch or response.json(): some are empty
ThrownMessages == {<<>>, <<"network", "error">>}

UnknownLocation ==
    <<"U", "n", "k", "n", "o", "w", "n", " ", "L", "o", "c", "a", "t", "i", "o", "n">>

\* the itinerary texts the language model answers with in Spec
SampleDrafts == {<<>>, <<PieceBlank, PieceBlank>>, <<PieceSevenDays>>,
                 <<PieceHeader, PieceTwoItems, PieceHeader, PieceStarItem>>}

corsHeaders ==
    [AccessControlAllowOrigin |-> "*",
     AccessControlAllowHeaders |-> "authorization, x-client-info, apikey, content-type"]

jsonHeaders ==
    [AccessControlAllowOrigin |-> "*",
     AccessControlAllowHeaders |-> "authorization, x-client-info, apikey, content-type",
     ContentType |-> "application/json"]

\* variant: videoUrl === undefined
videoUrlMissing_UndefinedOnly(videoUrl) == videoUrl = Undefined

\* !videoUrl
videoUrlMissing(videoUrl) == videoUrl \in {Undefined, <<>>}

\* variant: the Authorization header is checked before the configuration
preconditionError_AuthFirst(r, e) ==
    IF ~r.json THEN <<"Unexpected", "end", "of", "JSON", "input">>
    ELSE IF videoUrlMissing(r.videoUrl) THEN <<"Video", "URL", "is", "required">>
    ELSE IF r.auth = "null" THEN <<"Authorization", "required">>
    ELSE IF "SUPABASE_URL" \notin e \/ "SUPABASE_ANON_KEY" \notin e
         THEN <<"Supabase", "configuration", "is", "missing">>
    ELSE IF "OPENAI_API_KEY" \notin e
         THEN <<"OpenAI", "API", "key", "is", "not", "configured">>
    ELSE IF "GOOGLE_CLOUD_API_KEY" \notin e
         THEN <<"Google", "Cloud", "Vision", "API", "key", "is", "not", "configured">>
    ELSE <<>>

\* the message of the first throw of lines 16-51, <<>> when none throws
preconditionError(r, e) ==
    IF ~r.json THEN <<"Unexpected", "end", "of", "JSON", "input">>
    ELSE IF videoUrlMissing(r.videoUrl) THEN <<"Video", "URL", "is", "required">>
    ELSE IF "SUPABASE_URL" \notin e \/ "SUPABASE_ANON_KEY" \notin e
         THEN <<"Supabase", "configuration", "is", "missing">>
    ELSE IF "OPENAI_API_KEY" \notin e
         THEN <<"OpenAI", "API", "key", "is", "not", "configured">>
    ELSE IF "GOOGLE_CLOUD_API_KEY" \notin e
         THEN <<"Google", "Cloud", "Vision", "API", "key", "is", "not", "configured">>
    ELSE IF r.auth = "null" THEN <<"Authorization", "required">>
    ELSE <<>>

\* variant: error.message, without the default
messageOrDefault_AsIs(message) == message

\* error.message || 'Failed to process video'
messageOrDefault(message) ==
    IF message # <<>> THEN message ELSE <<"Failed", "to", "process", "video">>

\* the Response of the catch block
errorResponse(message) ==
    [status |-> 500,
     headers |-> jsonHeaders,
     body |-> [error |-> messageOrDefault(message)]]

\* the Response of a successful request, built from the saved row
successResponse(saved) ==
    [status |-> 200,
     headers |-> jsonHeaders,
     body |-> [success |-> TRUE,
               itinerary |-> [id |-> saved.id,
                              title |-> saved.title,
                              location |-> saved.location,
                              duration |-> saved.duration,
                              videoUrl |-> saved.video_url,
                              transcription |-> saved.transcription,
                              itinerary |-> saved.itinerary_content,
                              createdAt |-> saved.created_at]]]

\* variant: the preflight answers with the headers of the JSON responses
preflightResponse_JsonHeaders == [status |-> 200, headers |-> jsonHeaders, body |-> "null"]

\* new Response(null, { headers: corsHeaders })
preflightResponse == [status |-> 200, headers |-> corsHeaders, body |-> "null"]

\* throw new Error(`Video analysis failed: ${error.message}`)
analysisFailed(message) == <<"Video", "analysis", "failed:">> \o message

DownloadFailed ==
    <<"Failed", "to", "download", "video.", "The", "video", "may", "be", "private,",
      "restricted,", "or", "the", "URL", "may", "be", "invalid.">>

LocationUnknownError ==
    <<"Could", "not", "determine", "travel", "location", "from", "video.", "Please",
      "ensure", "the", "video", "contains", "clear", "location", "information.">>

Init ==
    /\ draft = <<>>
    /\ location = <<>>
    /\ gen = Pending
    /\ req \in [method : Methods, json : BOOLEAN, videoUrl : VideoUrls,
                auth : AuthHeaders]
    /\ req.json = FALSE => req.videoUrl = Undefined
    /\ env \in SUBSET EnvNames
    /\ pc = "start"
    /\ user = "unknown"
    /\ video = NoVideo
    /\ analysis = NoAnalysis
    /\ itinerary = NoItinerary
    /\ calls = <<>>
    /\ outcomes = <<>>
    /\ rows = <<>>
    /\ responses = <<>>
    /\ DownloadIdle
    /\ ExtraIdle

Respond(response) ==
    /\ responses' = Append(responses, response)
    /\ pc' = "done"

\* an Error reaches the catch block of the handler
Throw(message) == Respond(errorResponse(message))

\* lines 11-13
Preflight ==
    /\ pc = "start"
    /\ req.method = "OPTIONS"
    /\ Respond(preflightResponse)
    /\ UNCHANGED <<req, env, user, video, analysis, itinerary, calls, outcomes, rows>>
    /\ UNCHANGED parserVars
    /\ UNCHANGED downloadVars
    /\ UNCHANGED extraVars

\* lines 15-51
Validate ==
    /\ pc = "start"
    /\ req.method # "OPTIONS"
    /\ IF preconditionError(req, env) # <<>>
       THEN Throw(preconditionError(req, env))
       ELSE /\ pc' = "getUser"
            /\ UNCHANGED responses
    /\ UNCHANGED <<req, env, user, video, analysis, itinerary, calls, outcomes, rows>>
    /\ UNCHANGED parserVars
    /\ UNCHANGED downloadVars
    /\ UNCHANGED extraVars

\* lines 53-63: the auth service resolves the token, or does not
GetUser(found) ==
    /\ pc = "getUser"
    /\ calls' = Append(calls, "auth.getUser")
    /\ IF found /\ req.auth = "Bearer u1"
       THEN /\ user' = "u1"
            /\ outcomes' = Append(outcomes, "ok")
            /\ pc' = "ytdlp"
            /\ UNCHANGED responses
       ELSE /\ user' = "null"
            /\ outcomes' = Append(outcomes, "no user")
            /\ Throw(<<"Invalid", "authentication">>)
    /\ UNCHANGED <<req, env, video, analysis, itinerary, rows>>
    /\ UNCHANGED parserVars
    /\ UNCHANGED downloadVars
    /\ UNCHANGED extraVars

Letters ==
    <<"a", "b", "c", "d", "e", "f", "g", "h", "i", "j", "k", "l", "m", "n", "o",
      "p", "q", "r", "s", "t", "u", "v", "w", "x", "y", "z">>

Capitals ==
    <<"A", "B", "C", "D", "E", "F", "G", "H", "I", "J", "K", "L", "M", "N", "O",
      "P", "Q", "R", "S", "T", "U", "V", "W", "X", "Y", "Z">>

IsAsciiAlpha(c) == \E k \in 1..26 : c = Letters[k] \/ c = Capitals[k]

AsciiLower(c) ==
    IF \E k \in 1..26 : c = Capitals[k]
    THEN Letters[CHOOSE k \in 1..26 : c = Capitals[k]] ELSE c

\* the operators of the URL parser that work on a whole string are functions of
\* the string, so that the string is computed once

AsciiLowerAll[s \in Seq(STRING)] == [k \in 1..Len(s) |-> AsciiLower(s[k])]

RECURSIVE IndexFrom(_, _, _)
\* the first position from i on that holds a character of cs, Len(s) + 1 if none
IndexFrom(s, cs, i) ==
    IF i > Len(s) \/ s[i] \in cs THEN i ELSE IndexFrom(s, cs, i + 1)

\* s.lastIndexOf(c) + 1
LastIndexOf(s, c) ==
    LET at == {k \in 1..Len(s) : s[k] = c}
    IN  IF at = {} THEN 0 ELSE CHOOSE k \in at : \A h \in at : h <= k

\* the schemes the URL parser calls special (file: has rules of its own and is
\* not among the inputs)
SpecialSchemes == {<<"h", "t", "t", "p">>, <<"h", "t", "t", "p", "s">>, <<"f",
    "t", "p">>, <<"w", "s">>, <<"w", "s", "s">>}

\* characters no host may hold
ForbiddenHostChars ==
    {" ", "#", "/", ":", "<", ">", "?", "@", "[", "\\", "]", "^", "|"}

\* new URL(url) throws
FailedUrl == [valid |-> FALSE, hostname |-> <<>>, pathname |-> <<>>]

\* the position of the colon that ends the scheme, 0 when s starts with no scheme
schemeEnd(s) ==
    LET c == IndexFrom(s, {":"}, 1)
    IN  IF /\ 1 < c
           /\ c <= Len(s)
           /\ IsAsciiAlpha(s[1])
           /\ \A k \in 2..(c - 1) :
                  IsAsciiAlpha(s[k]) \/ IsDigit(s[k]) \/ s[k] \in {"+", "-", "."}
        THEN c ELSE 0

RECURSIVE SlashesEnd(_, _)
\* the position after the slashes and backslashes starting at i
SlashesEnd(s, i) ==
    IF i <= Len(s) /\ s[i] \in {"/", "\\"} THEN SlashesEnd(s, i + 1) ELSE i

\* the path percent-encoding of a segment, for the characters of the inputs
percentEncode[seg \in Seq(STRING)] ==
    IF seg = <<>> THEN <<>>
    ELSE (IF Head(seg) = " " THEN <<"%", "2", "0">> ELSE <<Head(seg)>>)
             \o percentEncode[Tail(seg)]

\* the path built from the segments: "." is dropped, ".." drops the segment before
resolveSegments[segs \in Seq(Seq(STRING)), path \in Seq(Seq(STRING))] ==
    IF segs = <<>> THEN path
    ELSE LET seg == Head(segs)
             last == Len(segs) = 1
             shorter == IF path = <<>> THEN path ELSE SubSeq(path, 1, Len(path) - 1)
         IN  IF seg = <<".", ".">>
             THEN resolveSegments[Tail(segs), IF last THEN Append(shorter, <<>>)
                                               ELSE shorter]
             ELSE IF seg = <<".">>
             THEN resolveSegments[Tail(segs), IF last THEN Append(path, <<>>)
                                               ELSE path]
             ELSE resolveSegments[Tail(segs), Append(path, percentEncode[seg])]

joinPath[path \in Seq(Seq(STRING))] ==
    IF path = <<>> THEN <<>> ELSE <<"/">> \o Head(path) \o joinPath[Tail(path)]

\* urlObj.pathname for the raw path of a URL that has a host
pathnameOf[raw \in Seq(STRING), special \in BOOLEAN] ==
    IF raw = <<>> THEN (IF special THEN <<"/">> ELSE <<>>)
    ELSE LET slashed == [k \in 1..Len(raw) |->
                            IF special /\ raw[k] = "\\" THEN "/" ELSE raw[k]]
         IN  joinPath[resolveSegments[Tail(SplitOn(slashed, "/", 1, 1)), <<>>]]

\* the host of an authority without its userinfo: failure, or the hostname
hostOf[hostPort \in Seq(STRING), special \in BOOLEAN] ==
    LET colon == LastIndexOf(hostPort, ":")
        port == IF colon = 0 THEN <<>> ELSE SubSeq(hostPort, colon + 1, Len(hostPort))
        host == IF colon = 0 THEN hostPort ELSE SubSeq(hostPort, 1, colon - 1)
    IN  IF \/ \E k \in 1..Len(port) : ~IsDigit(port[k])
           \/ \E k \in 1..Len(host) : host[k] \in ForbiddenHostChars
           \/ special /\ host = <<>>
        THEN [valid |-> FALSE, hostname |-> <<>>]
        ELSE [valid |-> TRUE,
              hostname |-> IF special THEN AsciiLowerAll[host] ELSE host]

\* the URL with the authority and the raw path that follows it
urlWithAuthority[authority \in Seq(STRING), raw \in Seq(STRING), special \in BOOLEAN] ==
    LET host == hostOf[SubSeq(authority, LastIndexOf(authority, "@") + 1,
                              Len(authority)), special]
    IN  IF ~host.valid THEN FailedUrl
        ELSE [valid |-> TRUE, hostname |-> host.hostname,
              pathname |-> pathnameOf[raw, special]]

\* the URL of a string with its leading and trailing white space removed
urlOfTrimmed[s \in Seq(STRING)] ==
    LET c == schemeEnd(s)
        special == AsciiLowerAll[SubSeq(s, 1, c - 1)] \in SpecialSchemes
        pathEnd == IndexFrom(s, {"?", "#"}, c + 1) - 1
        slashes == SlashesEnd(s, c + 1)
        authorityEnd == IndexFrom(s, IF special THEN {"/", "\\", "?", "#"}
                                     ELSE {"/", "?", "#"},
                                  IF special THEN slashes ELSE c + 3)
        rawPath == SubSeq(s, authorityEnd, IndexFrom(s, {"?", "#"}, authorityEnd) - 1)
    IN  IF c = 0 THEN FailedUrl
        ELSE IF special
             THEN urlWithAuthority[SubSeq(s, slashes, authorityEnd - 1), rawPath, TRUE]
        ELSE IF c + 2 <= Len(s) /\ s[c + 1] = "/" /\ s[c + 2] = "/"
             THEN urlWithAuthority[SubSeq(s, c + 3, authorityEnd - 1), rawPath, FALSE]
        ELSE IF c + 1 <= Len(s) /\ s[c + 1] = "/"
             THEN [valid |-> TRUE, hostname |-> <<>>,
                   pathname |-> pathnameOf[SubSeq(s, c + 1, pathEnd), FALSE]]
        ELSE [valid |-> TRUE, hostname |-> <<>>,
              pathname |-> SubSeq(s, c + 1, pathEnd)]

\* new URL(url), without a base: the hostname and pathname of the parsed URL
parseUrl(url) == urlOfTrimmed[Trim(url)]

\* cleanTikTokUrl with the mobile hosts cleaned like the standard ones
cleanTikTokUrl_MobileCleaned(url) ==
    LET urlObj == parseUrl(url)
    IN  IF ~urlObj.valid THEN url
        ELSE IF urlObj.hostname \in {<<"v", "m", ".", "t", "i", "k", "t", "o",
            "k", ".", "c", "o", "m">>, <<"m", ".", "t", "i", "k", "t", "o",
            "k", ".", "c", "o", "m">>,
                                     <<"w", "w", "w", ".", "t", "i", "k", "t",
                                         "o", "k", ".", "c", "o", "m">>, <<"t",
                                         "i", "k", "t", "o", "k", ".", "c",
                                         "o", "m">>}
             THEN <<"h", "t", "t", "p", "s", ":", "/", "/", "w", "w", "w", ".",
                 "t", "i", "k", "t", "o", "k", ".", "c", "o",
                 "m">> \o urlObj.pathname
        ELSE url

\* lines 129-153
cleanTikTokUrl(url) ==
    LET urlObj == parseUrl(url)
    IN  IF ~urlObj.valid THEN url
        ELSE IF urlObj.hostname \in {<<"v", "m", ".", "t", "i", "k", "t", "o",
            "k", ".", "c", "o", "m">>, <<"m", ".", "t", "i", "k", "t", "o",
            "k", ".", "c", "o", "m">>} THEN url
        ELSE IF urlObj.hostname \in {<<"w", "w", "w", ".", "t", "i", "k", "t",
            "o", "k", ".", "c", "o", "m">>, <<"t", "i", "k", "t", "o", "k",
            ".", "c", "o", "m">>}
             THEN <<"h", "t", "t", "p", "s", ":", "/", "/", "w", "w", "w", ".",
                 "t", "i", "k", "t", "o", "k", ".", "c", "o",
                 "m">> \o urlObj.pathname
        ELSE url

\* line 66
cleanedUrl == cleanTikTokUrl(req.videoUrl)

YtDlpOutcomes == {"ok", "no file", "private", "restricted", "not available",
                  "other", "spawn failed"}

\* downloadVideoWithYtDlp, lines 196-257, up to the fallback
YtDlp(outcome) ==
    /\ pc = "ytdlp"
    /\ calls' = Append(calls, "yt-dlp")
    /\ outcomes' = Append(outcomes, outcome)
    /\ IF outcome = "ok"
       THEN /\ video' = [source |-> "yt-dlp", url |-> cleanedUrl]
            /\ pc' = "whisper"
       ELSE /\ video' = video
            \* line 234 is inside the try block, line 255 in its catch block
            /\ pc' = IF outcome = "other" THEN "fallbackInTry" ELSE "fallbackInCatch"
    /\ UNCHANGED <<req, env, user, analysis, itinerary, rows, responses>>
    /\ UNCHANGED parserVars
    /\ UNCHANGED downloadVars
    /\ UNCHANGED extraVars

\* how fetch(videoUrl) ends: a 2xx answer, a non-2xx answer, or an exception
FetchOutcomes == {"ok"} \cup ErrorStatuses \cup {"throws"}

\* downloadVideoFallback called at line 234: its throw lands in the catch of line 250
FallbackInTry(outcome) ==
    /\ pc = "fallbackInTry"
    /\ calls' = Append(calls, "fetch video")
    /\ outcomes' = Append(outcomes, outcome)
    /\ IF outcome = "ok"
       THEN /\ video' = [source |-> "fetch", url |-> cleanedUrl]
            /\ pc' = "whisper"
       ELSE /\ video' = video
            /\ pc' = "fallbackInCatch"
    /\ UNCHANGED <<req, env, user, analysis, itinerary, rows, responses>>
    /\ UNCHANGED parserVars
    /\ UNCHANGED downloadVars
    /\ UNCHANGED extraVars

\* downloadVideoFallback called at line 255
FallbackInCatch(outcome) ==
    /\ pc = "fallbackInCatch"
    /\ calls' = Append(calls, "fetch video")
    /\ outcomes' = Append(outcomes, outcome)
    /\ IF outcome = "ok"
       THEN /\ video' = [source |-> "fetch", url |-> cleanedUrl]
            /\ pc' = "whisper"
            /\ UNCHANGED responses
       ELSE /\ video' = video
            \* lines 277-280: whatever was thrown, the message is the fixed one
            /\ Throw(analysisFailed(DownloadFailed))
    /\ UNCHANGED <<req, env, user, analysis, itinerary, rows>>
    /\ UNCHANGED parserVars
    /\ UNCHANGED downloadVars
    /\ UNCHANGED extraVars

WhisperOutcomes == {"ok"} \cup ErrorStatuses \cup {"throws"}

\* transcribeWithWhisper, lines 283-311
Whisper(outcome) ==
    /\ pc = "whisper"
    /\ calls' = Append(calls, "openai whisper")
    /\ outcomes' = Append(outcomes, outcome)
    /\ IF outcome = "ok"
       THEN /\ analysis' = [analysis EXCEPT !.transcription = "transcript"]
            /\ pc' = "vision"
            /\ UNCHANGED responses
       ELSE /\ analysis' = analysis
            /\ Throw(analysisFailed(
                 <<"Transcription", "failed:">> \o
                 (IF outcome = "throws" THEN <<"network", "error">>
                  ELSE <<"Whisper", "API", "error:", outcome, "-", "body">>)))
    /\ UNCHANGED <<req, env, user, video, itinerary, rows>>
    /\ UNCHANGED parserVars
    /\ UNCHANGED downloadVars
    /\ UNCHANGED extraVars

VisionOutcomes == {"ok", "no content"} \cup ErrorStatuses \cup {"throws"}

\* analyzeVideoWithGPTVision, lines 313-362: never throws
visionScreenText(outcome) ==
    CASE outcome = "ok" -> "visual analysis"
      [] outcome = "no content" -> "No visual analysis available"
      [] outcome = "throws" -> "Screen text analysis unavailable"
      [] OTHER -> "No screen text detected"

\* variant: a failed vision call throws, like a failed transcription
Vision_ThrowsOnFailure(outcome) ==
    /\ pc = "vision"
    /\ calls' = Append(calls, "openai vision")
    /\ outcomes' = Append(outcomes, outcome)
    /\ IF outcome \in {"ok", "no content"}
       THEN /\ analysis' = [analysis EXCEPT !.screenText = visionScreenText(outcome)]
            /\ pc' = "extract"
            /\ UNCHANGED responses
       ELSE /\ analysis' = analysis
            /\ Throw(analysisFailed(<<"Vision", "analysis", "failed">>))
    /\ UNCHANGED <<req, env, user, video, itinerary, rows>>
    /\ UNCHANGED parserVars
    /\ UNCHANGED downloadVars
    /\ UNCHANGED extraVars

Vision(outcome) ==
    /\ pc = "vision"
    /\ calls' = Append(calls, "openai vision")
    /\ outcomes' = Append(outcomes, outcome)
    /\ analysis' = [analysis EXCEPT !.screenText = visionScreenText(outcome)]
    /\ pc' = "extract"
    /\ UNCHANGED <<req, env, user, video, itinerary, rows, responses>>
    /\ UNCHANGED parserVars
    /\ UNCHANGED downloadVars
    /\ UNCHANGED extraVars

\* the location extractTravelInfo returns: parsed.location || 'Unknown Location'
ExtractedLocations == Locations \cup {UnknownLocation}

\* how the chat completion of extractTravelInfo ends: a JSON object, a content
\* that is not JSON, a non-2xx answer, or an exception
ExtractOutcomes == {"ok", "malformed"} \cup ErrorStatuses \cup {"throws"}

\* the { location, caption } extractTravelInfo can return after that outcome
travelInfos(outcome) ==
    CASE outcome = "ok"
           -> [location : ExtractedLocations, caption : {"caption", "transcript..."}]
      [] outcome = "malformed"
           -> {[location |-> UnknownLocation, caption |-> "transcript..."]}
      [] OTHER -> {[location |-> UnknownLocation, caption |-> "Travel experience"]}

\* extractTravelInfo, lines 364-430: never throws
ExtractTravelInfo(outcome, info) ==
    /\ pc = "extract"
    /\ calls' = Append(calls, "openai extract")
    /\ outcomes' = Append(outcomes, outcome)
    /\ analysis' = [analysis EXCEPT !.location = info.location,
                                    !.caption = info.caption]
    /\ pc' = "generate"
    /\ UNCHANGED <<req, env, user, video, itinerary, rows, responses>>
    /\ UNCHANGED parserVars
    /\ UNCHANGED downloadVars
    /\ UNCHANGED extraVars

\* variant: !videoAnalysis.location
locationUnresolved_EmptyOnly(loc) == loc = <<>>

\* !videoAnalysis.location || videoAnalysis.location === 'Unknown Location'
locationUnresolved(loc) == loc = <<>> \/ loc = UnknownLocation

\* generateItinerary, lines 432-437: no location, no call
GenerateNoLocation ==
    /\ pc = "generate"
    /\ locationUnresolved(analysis.location)
    /\ Throw(LocationUnknownError)
    /\ UNCHANGED <<req, env, user, video, analysis, itinerary, calls, outcomes, rows>>
    /\ UNCHANGED parserVars
    /\ UNCHANGED downloadVars
    /\ UNCHANGED extraVars

\* how the chat completion of generateItinerary fails: a non-2xx answer, or an
\* exception
GenerateFailOutcomes == ErrorStatuses \cup {"throws"}

\* the messages of the Error thrown after that outcome
GenerateFailures(outcome) ==
    IF outcome = "throws" THEN ThrownMessages
    ELSE {<<"Failed", "to", "generate", "itinerary:", outcome>>}

\* generateItinerary, lines 439-478: the chat completion fails
GenerateFails(outcome, message) ==
    /\ pc = "generate"
    /\ ~locationUnresolved(analysis.location)
    /\ calls' = Append(calls, "openai itinerary")
    /\ outcomes' = Append(outcomes, outcome)
    /\ Throw(message)
    /\ UNCHANGED <<req, env, user, video, analysis, itinerary, rows>>
    /\ UNCHANGED parserVars
    /\ UNCHANGED downloadVars
    /\ UNCHANGED extraVars

\* generateItinerary, lines 480-544: the chat completion answers with a text
GenerateAnswers(d) ==
    /\ pc = "generate"
    /\ ~locationUnresolved(analysis.location)
    /\ calls' = Append(calls, "openai itinerary")
    /\ outcomes' = Append(outcomes, "ok")
    /\ LET result == itineraryFromText(JoinLines(d), analysis.location)
       IN  IF result.status = "thrown"
           THEN /\ Throw(result.error)
                /\ UNCHANGED itinerary
           ELSE /\ itinerary' =
                     [title |-> analysis.location
                                  \o <<" ", "A", "d", "v", "e", "n", "t", "u", "r", "e">>,
                      location |-> analysis.location,
                      duration |-> result.duration,
                      content |-> result.days]
                /\ pc' = "insert"
                /\ UNCHANGED responses
    /\ UNCHANGED <<req, env, user, video, analysis, rows>>
    /\ UNCHANGED parserVars
    /\ UNCHANGED downloadVars
    /\ UNCHANGED extraVars

\* variant: the row stores the cleaned URL, the one that was downloaded
newRow_CleanedUrl ==
    [user_id |-> user,
     title |-> itinerary.title,
     location |-> itinerary.location,
     duration |-> itinerary.duration,
     video_url |-> cleanedUrl,
     transcription |-> analysis.transcription,
     caption_text |-> analysis.caption,
     screen_text |-> analysis.screenText,
     itinerary_content |-> itinerary.content]

\* the row of lines 81-91
newRow ==
    [user_id |-> user,
     title |-> itinerary.title,
     location |-> itinerary.location,
     duration |-> itinerary.duration,
     video_url |-> req.videoUrl,
     transcription |-> analysis.transcription,
     caption_text |-> analysis.caption,
     screen_text |-> analysis.screenText,
     itinerary_content |-> itinerary.content]

\* the row as the database returns it
savedRow(row, id) ==
    [id |-> id,
     created_at |-> "now",
     user_id |-> row.user_id,
     title |-> row.title,
     location |-> row.location,
     duration |-> row.duration,
     video_url |-> row.video_url,
     transcription |-> row.transcription,
     caption_text |-> row.caption_text,
     screen_text |-> row.screen_text,
     itinerary_content |-> row.itinerary_content]

\* variant: the row is written before the save error is looked at
Insert_RowKeptOnError(ok) ==
    /\ pc = "insert"
    /\ calls' = Append(calls, "insert")
    /\ outcomes' = Append(outcomes, IF ok THEN "ok" ELSE "error")
    /\ rows' = Append(rows, savedRow(newRow, Len(rows) + 1))
    /\ IF ok
       THEN Respond(successResponse(savedRow(newRow, Len(rows) + 1)))
       ELSE Throw(<<"Failed", "to", "save", "itinerary">>)
    /\ UNCHANGED <<req, env, user, video, analysis, itinerary>>
    /\ UNCHANGED parserVars
    /\ UNCHANGED downloadVars
    /\ UNCHANGED extraVars

\* lines 78-116: insert(...).select().single()
Insert(ok) ==
    /\ pc = "insert"
    /\ calls' = Append(calls, "insert")
    /\ outcomes' = Append(outcomes, IF ok THEN "ok" ELSE "error")
    /\ IF ok
       THEN /\ rows' = Append(rows, savedRow(newRow, Len(rows) + 1))
            /\ Respond(successResponse(savedRow(newRow, Len(rows) + 1)))
       ELSE /\ rows' = rows
            /\ Throw(<<"Failed", "to", "save", "itinerary">>)
    /\ UNCHANGED <<req, env, user, video, analysis, itinerary>>
    /\ UNCHANGED parserVars
    /\ UNCHANGED downloadVars
    /\ UNCHANGED extraVars

Next ==
    \/ Preflight
    \/ Validate
    \/ \E found \in BOOLEAN : GetUser(found)
    \/ \E outcome \in YtDlpOutcomes : YtDlp(outcome)
    \/ \E outcome \in FetchOutcomes : FallbackInTry(outcome)
    \/ \E outcome \in FetchOutcomes : FallbackInCatch(outcome)
    \/ \E outcome \in WhisperOutcomes : Whisper(outcome)
    \/ \E outcome \in VisionOutcomes : Vision(outcome)
    \/ \E outcome \in ExtractOutcomes :
          \E info \in travelInfos(outcome) : ExtractTravelInfo(outcome, info)
    \/ GenerateNoLocation
    \/ \E outcome \in GenerateFailOutcomes :
          \E message \in GenerateFailures(outcome) : GenerateFails(outcome, message)
    \/ \E d \in SampleDrafts : GenerateAnswers(d)
    \/ \E ok \in BOOLEAN : Insert(ok)

Spec == Init /\ [][Next]_vars

-----------------------------------------------------------------------------
(* VariantSpec: generateItinerary of the URL-analysis handler (part_000), *)
(* applied to the same assembled texts                                    *)

UrlFallbackDays == 5

RECURSIVE SeparatorsEnd(_, _)
\* the position after the greedy [:\-\s]* starting at i
SeparatorsEnd(t, i) ==
    IF i <= Len(t) /\ (t[i] \in {":", "-"} \/ IsSpace(t[i]))
    THEN SeparatorsEnd(t, i + 1) ELSE i

RECURSIVE LineEnd(_, _)
\* the position after the greedy [^\n]* starting at i
LineEnd(t, i) == IF i <= Len(t) /\ t[i] # NL THEN LineEnd(t, i + 1) ELSE i

\* /day\s*\d+[:\-\s]*([^\n]+)/i tried at i: the position where ([^\n]+) starts,
\* 0 when there is no match at i. When the separators run to the end of the text
\* the engine gives back separators, then one digit, until ([^\n]+) has a character.
DayMatchGroupStart(t, i) ==
    IF ~DayMarkerAt(t, i) THEN 0
    ELSE LET d == SpaceEnd(t, i + 3)
             e == DigitsEnd(t, d)
             f == SeparatorsEnd(t, e)
             givenBack == {g \in e..(f - 1) : t[g] # NL}
         IN  IF f <= Len(t) THEN f
             ELSE IF givenBack # {}
                  THEN CHOOSE g \in givenBack : \A h \in givenBack : h <= g
             ELSE IF e - d >= 2 THEN e - 1
             ELSE 0

\* dayMatch.replace(/day\s*\d+[:\-\s]*/i, '').trim() for the match that starts at i
dayTitle(t, i) ==
    LET d == SpaceEnd(t, i + 3)
        f == SeparatorsEnd(t, DigitsEnd(t, d))
        end == LineEnd(t, DayMatchGroupStart(t, i))
    IN  Trim(SubSeq(t, Min(f, end), end - 1))

RECURSIVE DayTitlesFrom(_, _)
\* the titles of the matches of itineraryText.match(/.../gi) from position q on
DayTitlesFrom(t, q) ==
    IF q > Len(t) THEN <<>>
    ELSE IF DayMatchGroupStart(t, q) # 0
         THEN <<dayTitle(t, q)>> \o DayTitlesFrom(t, LineEnd(t, DayMatchGroupStart(t, q)))
    ELSE DayTitlesFrom(t, q + 1)

\* one dayTitle per element of dayMatches; <<>> when match() returns null
dayTitles(t) == DayTitlesFrom(t, 1)

\* the activities of every matched day
matchedActivities(loc) ==
    << <<"E", "x", "p", "l", "o", "r", "e", " ">> \o loc
           \o <<" ", "h", "i", "g", "h", "l", "i", "g", "h", "t", "s">>,
       <<"V", "i", "s", "i", "t", " ", "l", "o", "c", "a", "l", " ", "a", "t",
         "t", "r", "a", "c", "t", "i", "o", "n", "s", " ", "a", "n", "d", " ",
         "l", "a", "n", "d", "m", "a", "r", "k", "s">>,
       <<"E", "x", "p", "e", "r", "i", "e", "n", "c", "e", " ", "a", "u", "t",
         "h", "e", "n", "t", "i", "c", " ", "l", "o", "c", "a", "l", " ", "c",
         "u", "i", "s", "i", "n", "e">>,
       <<"E", "n", "j", "o", "y", " ", "c", "u", "l", "t", "u", "r", "a", "l",
         " ", "a", "c", "t", "i", "v", "i", "t", "i", "e", "s", " ", "a", "n",
         "d", " ", "e", "x", "p", "e", "r", "i", "e", "n", "c", "e", "s">> >>

\* the activities of the five days built when nothing matches
unmatchedActivities(loc) ==
    << <<"D", "i", "s", "c", "o", "v", "e", "r", " ">> \o loc
           \o <<" ", "a", "t", "t", "r", "a", "c", "t", "i", "o", "n", "s">>,
       <<"L", "o", "c", "a", "l", " ", "d", "i", "n", "i", "n", "g", " ", "e",
         "x", "p", "e", "r", "i", "e", "n", "c", "e", "s">>,
       <<"C", "u", "l", "t", "u", "r", "a", "l", " ", "a", "n", "d", " ", "o",
         "u", "t", "d", "o", "o", "r", " ", "a", "c", "t", "i", "v", "i", "t",
         "i", "e", "s">>,
       <<"R", "e", "s", "t", " ", "a", "n", "d", " ", "e", "x", "p", "l", "o",
         "r", "a", "t", "i", "o", "n", " ", "t", "i", "m", "e">> >>

\* dayMatches.forEach((dayMatch, index) => days.push(...))
matchedDays(titles, loc) ==
    [n \in 1..Len(titles) |->
        [day |-> n,
         title |-> IF titles[n] # <<>> THEN titles[n] ELSE defaultTitle(n, loc),
         activities |-> matchedActivities(loc)]]

\* for (let i = 1; i <= 5; i++) days.push(...)
unmatchedDays(loc) ==
    [i \in 1..UrlFallbackDays |->
        [day |-> i,
         title |-> syntheticTitle(i, loc),
         activities |-> unmatchedActivities(loc)]]

\* generateItinerary of the URL-analysis handler from the received itineraryText on
urlItineraryFromText(t, loc) ==
    [status |-> "returned",
     error |-> <<>>,
     duration |-> durationOf(t),
     days |-> IF dayTitles(t) # <<>> THEN matchedDays(dayTitles(t), loc)
              ELSE unmatchedDays(loc)]

\* generateItinerary of the URL-analysis handler runs on the answer
GenerateFromUrlAnalysis(loc) ==
    /\ gen.status = "pending"
    /\ location' = loc
    /\ gen' = urlItineraryFromText(itineraryText, loc)
    /\ UNCHANGED draft
    /\ UNCHANGED handlerVars
    /\ UNCHANGED downloadVars
    /\ UNCHANGED extraVars

VariantNext ==
    \/ \E p \in Pieces : AppendPiece(p)
    \/ \E loc \in Locations : GenerateFromUrlAnalysis(loc)

VariantSpec == ParserInit /\ [][VariantNext]_vars

-----------------------------------------------------------------------------
(* UrlSpec: cleanTikTokUrl applied to a string, then to its own result *)

MaxApplications == 3

\* the strings given to cleanTikTokUrl, by their parts
UrlInputs ==
    [scheme : {<<>>, <<"h", "t", "t", "p", "s", ":">>, <<"H", "T", "T", "P",
        ":">>, <<"a", "p", "p", ":">>},
     slashes : {<<>>, <<"/", "/">>},
     host : {<<"w", "w", "w", ".", "t", "i", "k", "t", "o", "k", ".", "c", "o",
         "m">>, <<"t", "i", "k", "t", "o", "k", ".", "c", "o", "m">>,
             <<"W", "W", "W", ".", "T", "i", "k", "T", "o", "k", ".", "c", "o",
                 "m">>, <<"v", "m", ".", "t", "i", "k", "t", "o", "k", ".",
                 "c", "o", "m">>,
             <<"m", ".", "t", "i", "k", "t", "o", "k", ".", "c", "o", "m">>,
                 <<"e", "x", "a", "m", "p", "l", "e", ".", "c", "o", "m">>},
     port : {<<>>, <<":", "8", "0", "8", "0">>},
     path : {<<>>, <<"/">>, <<"/", "@", "u", "/", "v", "i", "d", "e", "o", "/",
         "1">>, <<"/", "a", "/", ".", ".", "/", "b">>, <<"/", "a", " ", "b">>},
     query : {<<>>, <<"?", "x", "=", "1">>},
     fragment : {<<>>, <<"#", "f">>}]

\* the string made of the parts
urlString ==
    urlParts.scheme \o urlParts.slashes \o urlParts.host \o urlParts.port
        \o urlParts.path \o urlParts.query \o urlParts.fragment

UrlInit ==
    /\ draft = <<>>
    /\ location = <<>>
    /\ gen = Pending
    /\ HandlerIdle
    /\ DownloadIdle
    /\ urlParts \in UrlInputs
    /\ cleaned = <<>>
    /\ PageIdle
    /\ TimerIdle

\* cleanTikTokUrl is called with the string, or with what it returned last
Clean ==
    /\ Len(cleaned) < MaxApplications
    /\ cleaned' = Append(cleaned, cleanTikTokUrl(IF cleaned = <<>> THEN urlString
                                                 ELSE cleaned[Len(cleaned)]))
    /\ UNCHANGED urlParts
    /\ UNCHANGED parserVars
    /\ UNCHANGED handlerVars
    /\ UNCHANGED downloadVars
    /\ UNCHANGED <<pageVars, timerVars>>

UrlNext == Clean

UrlSpec == UrlInit /\ [][UrlNext]_vars

-----------------------------------------------------------------------------
(* ProgressSpec: the interval of VideoProcessor *)

MaxTicks == 120

\* steps.length
StepCount == 4

\* const newProgress = prev + 2
ProgressIncrement == 2

\* Math.floor(newProgress / 25)
StepWidth == 25

\* Math.min(newProgress, 100)
ProgressCap == 100

ProgressInit ==
    /\ draft = <<>>
    /\ location = <<>>
    /\ gen = Pending
    /\ HandlerIdle
    /\ DownloadIdle
    /\ UrlIdle
    /\ PageIdle
    /\ progress = 0
    /\ currentStep = 0
    /\ ticks = 0

\* the callback with setCurrentStep(stepIndex)
IntervalTick_StepUncapped ==
    /\ ticks < MaxTicks
    /\ currentStep' = (progress + ProgressIncrement) \div StepWidth
    /\ progress' = Min(progress + ProgressIncrement, ProgressCap)
    /\ ticks' = ticks + 1
    /\ UNCHANGED parserVars
    /\ UNCHANGED handlerVars
    /\ UNCHANGED downloadVars
    /\ UNCHANGED <<urlVars, pageVars>>

\* the callback of setInterval: the updater of setProgress with its setCurrentStep
IntervalTick ==
    /\ ticks < MaxTicks
    /\ LET newProgress == progress + ProgressIncrement
           stepIndex == newProgress \div StepWidth
       IN  /\ currentStep' = Min(stepIndex, StepCount - 1)
           /\ progress' = Min(newProgress, ProgressCap)
    /\ ticks' = ticks + 1
    /\ UNCHANGED parserVars
    /\ UNCHANGED handlerVars
    /\ UNCHANGED downloadVars
    /\ UNCHANGED <<urlVars, pageVars>>

ProgressNext == IntervalTick

ProgressSpec == ProgressInit /\ [][ProgressNext]_vars

-----------------------------------------------------------------------------
(* IndexSpec: the Index page, its submit handler and its selects *)

MaxToasts == 3

\* what the user types into the URL field
TypedUrls == {<<>>, <<" ">>, <<"h", "t", "t", "p", "s", ":", "/", "/", "v",
    "m", ".", "t", "i", "k", "t", "o", "k", ".", "c", "o", "m", "/", "a", "b",
    "c">>}

TabNames == {"process", "current", "saved"}

\* how supabase.functions.invoke ends: data.success true, an error, data.success
\* false, or an exception
InvokeOutcomes == {"success", "error", "not success", "throws"}

AuthenticationRequired == "Authentication Required"
EnterUrl == "Please enter a TikTok URL"
ProcessedSuccessfully == "Video processed successfully!"
ProcessingFailed == "Processing failed"

RECURSIVE newestFirst(_)
\* .order('created_at', { ascending: false }) on rows numbered as they were made
newestFirst(ids) ==
    IF ids = {} THEN <<>>
    ELSE LET newest == CHOOSE n \in ids : \A m \in ids : m <= n
         IN  <<newest>> \o newestFirst(ids \ {newest})

\* the id of the row the backend inserts next
nextId == Cardinality(table) + 1

\* what no step of the page touches
offPage == <<parserVars, handlerVars, downloadVars, urlVars, timerVars>>

IndexInit ==
    /\ draft = <<>>
    /\ location = <<>>
    /\ gen = Pending
    /\ HandlerIdle
    /\ DownloadIdle
    /\ UrlIdle
    /\ TimerIdle
    /\ PageIdle

\* the select of fetchSavedItineraries goes out
selectSent(by) == Append(selects, [by |-> by, state |-> "sent", data |-> <<>>])

\* useAuth() gives a user: the effect of lines 25-29 calls fetchSavedItineraries
SignIn ==
    /\ ~signedIn
    /\ signedIn' = TRUE
    /\ selects' = selectSent("effect")
    /\ UNCHANGED <<tiktokUrl, currentItinerary, savedItineraries, isProcessing,
                   activeTab, toasts, submit, table>>
    /\ UNCHANGED offPage

\* the form is on the page: a user, and the tab "process"
formRendered == signedIn /\ activeTab = "process"

\* onChange of the URL field
TypeUrl(text) ==
    /\ formRendered
    /\ text # tiktokUrl
    /\ tiktokUrl' = text
    /\ UNCHANGED <<signedIn, currentItinerary, savedItineraries, isProcessing,
                   activeTab, toasts, submit, selects, table>>
    /\ UNCHANGED offPage

\* onValueChange of the tabs
SwitchTab(tab) ==
    /\ signedIn
    /\ tab # activeTab
    /\ activeTab' = tab
    /\ UNCHANGED <<signedIn, tiktokUrl, currentItinerary, savedItineraries,
                   isProcessing, toasts, submit, selects, table>>
    /\ UNCHANGED offPage

\* handleUrlSubmit up to the invoke, with !tiktokUrl for the second check
handleUrlSubmit_NoTrim ==
    /\ formRendered
    /\ ~isProcessing
    /\ Len(toasts) < MaxToasts
    /\ IF ~signedIn \/ tiktokUrl = <<>>
       THEN /\ toasts' = Append(toasts, IF ~signedIn THEN AuthenticationRequired
                                        ELSE EnterUrl)
            /\ UNCHANGED <<isProcessing, currentItinerary, submit>>
       ELSE /\ isProcessing' = TRUE
            /\ currentItinerary' = Null
            /\ submit' = "invoking"
            /\ UNCHANGED toasts
    /\ UNCHANGED <<signedIn, tiktokUrl, savedItineraries, activeTab, selects, table>>
    /\ UNCHANGED offPage

\* handleUrlSubmit up to the invoke, lines 45-70; the button is disabled while
\* isProcessing (line 195)
handleUrlSubmit ==
    /\ formRendered
    /\ ~isProcessing
    /\ Len(toasts) < MaxToasts
    /\ IF ~signedIn \/ Trim(tiktokUrl) = <<>>
       THEN /\ toasts' = Append(toasts, IF ~signedIn THEN AuthenticationRequired
                                        ELSE EnterUrl)
            /\ UNCHANGED <<isProcessing, currentItinerary, submit>>
       ELSE /\ isProcessing' = TRUE
            /\ currentItinerary' = Null
            /\ submit' = "invoking"
            /\ UNCHANGED toasts
    /\ UNCHANGED <<signedIn, tiktokUrl, savedItineraries, activeTab, selects, table>>
    /\ UNCHANGED offPage

\* the catch block without the finally block
processingFailed_NoFinally ==
    /\ toasts' = Append(toasts, ProcessingFailed)
    /\ isProcessing' = isProcessing
    /\ submit' = "idle"

\* the catch and finally blocks, lines 87-96
processingFailed ==
    /\ toasts' = Append(toasts, ProcessingFailed)
    /\ isProcessing' = FALSE
    /\ submit' = "idle"

\* the invoke returns, lines 70-78 and 83-96; on success the backend has inserted
\* the row and the refresh select goes out
InvokeReturns(outcome) ==
    /\ submit = "invoking"
    /\ IF outcome = "success"
       THEN /\ table' = table \cup {nextId}
            /\ currentItinerary' = nextId
            /\ selects' = selectSent("submit")
            /\ submit' = "refreshing"
            /\ UNCHANGED <<toasts, isProcessing>>
       ELSE /\ processingFailed
            /\ UNCHANGED <<table, currentItinerary, selects>>
    /\ UNCHANGED <<signedIn, tiktokUrl, savedItineraries, activeTab>>
    /\ UNCHANGED offPage

\* the database answers a select: the rows as they are now, or an error
SelectReads(k, ok) ==
    /\ k \in 1..Len(selects)
    /\ selects[k].state = "sent"
    /\ selects' = [selects EXCEPT ![k] =
                      [by |-> selects[k].by,
                       state |-> IF ok THEN "read" ELSE "failed",
                       data |-> IF ok THEN newestFirst(table) ELSE <<>>]]
    /\ UNCHANGED <<signedIn, tiktokUrl, currentItinerary, savedItineraries,
                   isProcessing, activeTab, toasts, submit, table>>
    /\ UNCHANGED offPage

\* the same without setActiveTab("current")
SelectReturns_KeepsTab(k) ==
    /\ k \in 1..Len(selects)
    /\ selects[k].state \in {"read", "failed"}
    /\ selects' = [selects EXCEPT ![k].state = "done"]
    /\ savedItineraries' = IF selects[k].state = "read" THEN selects[k].data
                           ELSE savedItineraries
    /\ IF selects[k].by = "submit"
       THEN /\ toasts' = Append(toasts, ProcessedSuccessfully)
            /\ isProcessing' = FALSE
            /\ submit' = "idle"
            /\ UNCHANGED activeTab
       ELSE UNCHANGED <<activeTab, toasts, isProcessing, submit>>
    /\ UNCHANGED <<signedIn, tiktokUrl, currentItinerary, table>>
    /\ UNCHANGED offPage

\* fetchSavedItineraries resumes with the answer, lines 38-42; the one awaited by
\* handleUrlSubmit is followed by lines 79-84 and 94-96
SelectReturns(k) ==
    /\ k \in 1..Len(selects)
    /\ selects[k].state \in {"read", "failed"}
    /\ selects' = [selects EXCEPT ![k].state = "done"]
    /\ savedItineraries' = IF selects[k].state = "read" THEN selects[k].data
                           ELSE savedItineraries
    /\ IF selects[k].by = "submit"
       THEN /\ activeTab' = "current"
            /\ toasts' = Append(toasts, ProcessedSuccessfully)
            /\ isProcessing' = FALSE
            /\ submit' = "idle"
       ELSE UNCHANGED <<activeTab, toasts, isProcessing, submit>>
    /\ UNCHANGED <<signedIn, tiktokUrl, currentItinerary, table>>
    /\ UNCHANGED offPage

\* handleSelectItinerary, lines 99-102, for an itinerary of the saved tab
handleSelectItinerary(id) ==
    /\ signedIn
    /\ activeTab = "saved"
    /\ \E k \in 1..Len(savedItineraries) : savedItineraries[k] = id
    /\ currentItinerary' = id
    /\ activeTab' = "current"
    /\ UNCHANGED <<signedIn, tiktokUrl, savedItineraries, isProcessing, toasts,
                   submit, selects, table>>
    /\ UNCHANGED offPage

IndexNext ==
    \/ SignIn
    \/ \E text \in TypedUrls : TypeUrl(text)
    \/ \E tab \in TabNames : SwitchTab(tab)
    \/ handleUrlSubmit
    \/ \E outcome \in InvokeOutcomes : InvokeReturns(outcome)
    \/ \E k \in 1..(MaxToasts + 1), ok \in BOOLEAN : SelectReads(k, ok)
    \/ \E k \in 1..(MaxToasts + 1) : SelectReturns(k)
    \/ \E id \in 1..MaxToasts : handleSelectItinerary(id)

IndexSpec == IndexInit /\ [][IndexNext]_vars

\* every call that went out is answered, and every answer is delivered
FairIndexSpec ==
    /\ IndexSpec
    /\ WF_vars(\E outcome \in InvokeOutcomes : InvokeReturns(outcome))
    /\ WF_vars(\E k \in 1..(MaxToasts + 1), ok \in BOOLEAN : SelectReads(k, ok))
    /\ WF_vars(\E k \in 1..(MaxToasts + 1) : SelectReturns(k))

-----------------------------------------------------------------------------
(* DownloadSpec: two requests inside downloadVideoWithYtDlp at the same time *)

MaxClock == 1

\* the cleaned URLs the two requests download
DownloadUrls == {"https://www.tiktok.com/@u/video/1", "https://vm.tiktok.com/abc"}

DownloadRequests == {1, 2}

\* the bytes of the video at url, as written or fetched by request i
videoBytes(url, i) == [url |-> url, by |-> i]

NoBytes == [url |-> "", by |-> 0]

DownloadInit ==
    /\ draft = <<>>
    /\ location = <<>>
    /\ gen = Pending
    /\ HandlerIdle
    /\ now = 0
    /\ tmp = <<>>
    /\ dl \in [DownloadRequests ->
                 [pc : {"start"}, url : DownloadUrls, path : {0}, data : {NoBytes}]]
    /\ ExtraIdle

\* the file /tmp/tiktok_<stamp>.mp4 exists
fileExists(stamp) == stamp \in DOMAIN tmp

\* /tmp after the file of that stamp is written with these bytes
writeFile(stamp, bytes) ==
    [s \in DOMAIN tmp \cup {stamp} |-> IF s = stamp THEN bytes ELSE tmp[s]]

\* /tmp after Deno.remove of the file of that stamp
removeFile(stamp) == [s \in DOMAIN tmp \ {stamp} |-> tmp[s]]

\* a millisecond passes
Tick ==
    /\ now < MaxClock
    /\ now' = now + 1
    /\ UNCHANGED <<tmp, dl>>
    /\ UNCHANGED parserVars
    /\ UNCHANGED handlerVars
    /\ UNCHANGED extraVars

\* line 200: tempVideoPath = `/tmp/tiktok_${Date.now()}.mp4`
ComputePath(i) ==
    /\ dl[i].pc = "start"
    /\ dl' = [dl EXCEPT ![i].path = now, ![i].pc = "yt-dlp"]
    /\ UNCHANGED <<now, tmp>>
    /\ UNCHANGED parserVars
    /\ UNCHANGED handlerVars
    /\ UNCHANGED extraVars

\* lines 203-218: yt-dlp exits with code 0 and the file at tempVideoPath holds the
\* video of the request, or, when the file was already there, what it held
YtDlpExitsZero(i, overwrites) ==
    /\ dl[i].pc = "yt-dlp"
    /\ overwrites \/ fileExists(dl[i].path)
    /\ tmp' = IF overwrites THEN writeFile(dl[i].path, videoBytes(dl[i].url, i))
              ELSE tmp
    /\ dl' = [dl EXCEPT ![i].pc = "readFile"]
    /\ UNCHANGED now
    /\ UNCHANGED parserVars
    /\ UNCHANGED handlerVars
    /\ UNCHANGED extraVars

\* lines 220-235 and 250-255: yt-dlp cannot be run or exits with another code
YtDlpFails(i) ==
    /\ dl[i].pc = "yt-dlp"
    /\ dl' = [dl EXCEPT ![i].pc = "fallback"]
    /\ UNCHANGED <<now, tmp>>
    /\ UNCHANGED parserVars
    /\ UNCHANGED handlerVars
    /\ UNCHANGED extraVars

\* line 239: Deno.readFile(tempVideoPath); NotFound lands in the catch of line 250
ReadFile(i) ==
    /\ dl[i].pc = "readFile"
    /\ dl' = IF fileExists(dl[i].path)
             THEN [dl EXCEPT ![i].data = tmp[dl[i].path], ![i].pc = "remove"]
             ELSE [dl EXCEPT ![i].pc = "fallback"]
    /\ UNCHANGED <<now, tmp>>
    /\ UNCHANGED parserVars
    /\ UNCHANGED handlerVars
    /\ UNCHANGED extraVars

\* lines 242-248: Deno.remove(tempVideoPath), its error ignored; return videoData
RemoveFile(i) ==
    /\ dl[i].pc = "remove"
    /\ tmp' = removeFile(dl[i].path)
    /\ dl' = [dl EXCEPT ![i].pc = "downloaded"]
    /\ UNCHANGED now
    /\ UNCHANGED parserVars
    /\ UNCHANGED handlerVars
    /\ UNCHANGED extraVars

\* downloadVideoFallback, lines 259-281: fetch(videoUrl)
DownloadFallback(i, ok) ==
    /\ dl[i].pc = "fallback"
    /\ dl' = IF ok
             THEN [dl EXCEPT ![i].data = videoBytes(dl[i].url, i),
                             ![i].pc = "downloaded"]
             ELSE [dl EXCEPT ![i].pc = "failed"]
    /\ UNCHANGED <<now, tmp>>
    /\ UNCHANGED parserVars
    /\ UNCHANGED handlerVars
    /\ UNCHANGED extraVars

\* line 170: transcribeWithWhisper(videoData, openaiApiKey)
Transcribe(i) ==
    /\ dl[i].pc = "downloaded"
    /\ dl' = [dl EXCEPT ![i].pc = "transcribed"]
    /\ UNCHANGED <<now, tmp>>
    /\ UNCHANGED parserVars
    /\ UNCHANGED handlerVars
    /\ UNCHANGED extraVars

DownloadNext ==
    \/ Tick
    \/ \E i \in DownloadRequests : ComputePath(i)
    \/ \E i \in DownloadRequests, overwrites \in BOOLEAN : YtDlpExitsZero(i, overwrites)
    \/ \E i \in DownloadRequests : YtDlpFails(i)
    \/ \E i \in DownloadRequests : ReadFile(i)
    \/ \E i \in DownloadRequests : RemoveFile(i)
    \/ \E i \in DownloadRequests, ok \in BOOLEAN : DownloadFallback(i, ok)
    \/ \E i \in DownloadRequests : Transcribe(i)

DownloadSpec == DownloadInit /\ [][DownloadNext]_vars

-----------------------------------------------------------------------------
(* Properties of the parsing, stated without the operators of the model *)

Returned == gen.status = "returned"
Thrown == gen.status = "thrown"

Blank(c) == c = " " \/ c = "\n" \/ c = "\t" \/ c = "\r"
Numeral(c) == c \in {"0", "1", "2", "3", "4", "5", "6", "7", "8", "9"}

\* the word "day", in any letter case, starts at k
WordDayAt(t, k) ==
    /\ k >= 1
    /\ k + 2 <= Len(t)
    /\ t[k] \in {"d", "D"}
    /\ t[k + 1] \in {"a", "A"}
    /\ t[k + 2] \in {"y", "Y"}

\* the positions where a day marker ("day", optional blanks, a digit) starts
MarkerStarts(t) ==
    {k \in 1..Len(t) :
        /\ WordDayAt(t, k)
        /\ \E m \in (k + 3)..Len(t) :
              /\ Numeral(t[m])
              /\ \A x \in (k + 3)..(m - 1) : Blank(t[x])}

MarkerCount(t) == Cardinality(MarkerStarts(t))

\* the digits t[i..j] are followed by optional blanks and then the word "day"
IsNumberBeforeDay(t, i, j) ==
    /\ \A x \in i..j : Numeral(t[x])
    /\ \E k \in (j + 1)..Len(t) :
          /\ WordDayAt(t, k)
          /\ \A x \in (j + 1)..(k - 1) : Blank(t[x])

\* the positions where a number followed by "day" starts
NumberBeforeDay(t) ==
    {i \in 1..Len(t) :
        /\ Numeral(t[i])
        /\ \E j \in i..Len(t) : IsNumberBeforeDay(t, i, j)}

\* the digits of the first (leftmost) number followed by "day"
FirstNumberBeforeDay(t) ==
    LET i == CHOOSE i \in NumberBeforeDay(t) :
                 \A other \in NumberBeforeDay(t) : i <= other
        j == CHOOSE j \in i..Len(t) : IsNumberBeforeDay(t, i, j)
    IN  [x \in 1..(j - i + 1) |-> t[i + x - 1]]

FiveDays == <<"5", " ", "D", "a", "y", "s">>
SevenDays == <<"7", " ", "D", "a", "y", "s">>

\* "Day <n> - Exploring <loc>" for n in 1..9
ExploringTitle(n, loc) ==
    <<"D", "a", "y", " ", DigitChars[n + 1], " ", "-", " ",
      "E", "x", "p", "l", "o", "r", "i", "n", "g", " ">> \o loc

\* C1: every parsed text gives at least 3 days, and exactly 3 when the text has
\* fewer than 3 day markers (the missing days are appended as synthetic days).
C1_AtLeastThreeDays ==
    Returned =>
        /\ Len(gen.days) >= 3
        /\ MarkerCount(itineraryText) < 3 => Len(gen.days) = 3

C1_Witness ==
    /\ Returned
    /\ MarkerCount(itineraryText) = 1
    /\ Len(gen.days) = 3

\* the lines of a fragment, after its title line, that hold a marker
MarkedLinesAfterTitle(fragment) ==
    LET lines == linesOf(Trim(fragment))
    IN  IF lines = <<>> THEN <<>>
        ELSE SelectSeq(Tail(lines),
               LAMBDA line : \E k \in 1..Len(line) : line[k] \in {"-", Bullet, "*"})

\* the fragments that follow the day markers of the text
Fragments == Tail(dayMarkers(itineraryText))

\* C2: every returned day has 1 to 4 activities, none of them empty, and a parsed
\* day with no activity line carries the fixed three-entry fallback list.
C2_ActivitiesBounded ==
    Returned =>
        LET fragments == Fragments
        IN  \A n \in 1..Len(gen.days) :
              /\ Len(gen.days[n].activities) >= 1
              /\ Len(gen.days[n].activities) <= 4
              /\ \A k \in 1..Len(gen.days[n].activities) :
                    gen.days[n].activities[k] # <<>>
              /\ (n <= Len(fragments) /\ n <= 7
                    /\ MarkedLinesAfterTitle(fragments[n]) = <<>>)
                    => /\ Len(gen.days[n].activities) = 3
                       /\ gen.days[n].activities[1] =
                            <<"E", "x", "p", "l", "o", "r", "e", " ">> \o location
                              \o <<" ", "h", "i", "g", "h", "l", "i", "g", "h", "t", "s">>

\* a day whose fragment has five activity lines, and a day that has none
C2_Witness ==
    /\ Returned
    /\ \E n \in 1..Len(Fragments) : Len(MarkedLinesAfterTitle(Fragments[n])) >= 5
    /\ \E n \in 1..Len(Fragments) : MarkedLinesAfterTitle(Fragments[n]) = <<>>

\* C3: the day numbers of the returned list are 1, 2, ..., len(days) in order,
\* whatever number follows "day" in the text.
C3_SequentialDayNumbers ==
    Returned => \A n \in 1..Len(gen.days) : gen.days[n].day = n

\* the text starts with "Day 5:", has two markers, and one synthetic day follows
C3_Witness ==
    /\ Returned
    /\ Len(draft) >= 1
    /\ draft[1] = PieceHeaderHyphen
    /\ MarkerCount(itineraryText) = 2
    /\ gen.days[1].day = 1
    /\ gen.days[3].day = 3

\* the digits of the first number followed by "day", <<>> when there is none
FirstNumber ==
    IF NumberBeforeDay(itineraryText) = {} THEN <<>>
    ELSE FirstNumberBeforeDay(itineraryText)

\* C4 as stated: "<N> Days" for the first number followed by "day", and "5 Days"
\* exactly when the text has no such number.
C4_Original ==
    Returned =>
        LET number == FirstNumber
        IN  /\ number # <<>> => gen.duration = number \o <<" ", "D", "a", "y", "s">>
            /\ gen.duration = FiveDays <=> number = <<>>

\* C4 amended: "<N> Days" for the first number followed by "day"; "5 Days"
\* whenever the text has no such number, and otherwise only when that number is 5.
C4_Duration ==
    Returned =>
        LET number == FirstNumber
        IN  /\ number # <<>> => gen.duration = number \o <<" ", "D", "a", "y", "s">>
            /\ number = <<>> => gen.duration = FiveDays
            /\ gen.duration = FiveDays => number \in {<<>>, <<"5">>}

\* the first number followed by "day" is the 7 of "7 DAYS", after a day header
C4_Witness ==
    /\ Returned
    /\ Len(draft) >= 2
    /\ draft[1] = PieceHeader
    /\ draft[2] = PieceSevenDays
    /\ gen.duration = SevenDays

\* the three synthetic days for the location
ThreeSyntheticDays ==
    /\ Len(gen.days) = 3
    /\ \A n \in 1..3 :
          /\ gen.days[n].day = n
          /\ gen.days[n].title = ExploringTitle(n, location)
          /\ Len(gen.days[n].activities) = 4
          /\ gen.days[n].activities[2] =
               <<"L", "o", "c", "a", "l", " ", "d", "i", "n", "i", "n", "g", " ",
                 "e", "x", "p", "e", "r", "i", "e", "n", "c", "e", "s">>

IsHeaderPiece(p) == p \in {PieceHeader, PieceHeaderHyphen}
IsItemsPiece(p) == p \in {PieceTwoItems, PieceStarItem}

\* the draft is made of sections: a "Day k: <title>" line, then marker lines
SectionForm ==
    /\ draft # <<>>
    /\ IsHeaderPiece(draft[1])
    /\ \A k \in 1..Len(draft) :
          /\ IsHeaderPiece(draft[k]) \/ IsItemsPiece(draft[k])
          /\ IsHeaderPiece(draft[k]) => (k < Len(draft) /\ IsItemsPiece(draft[k + 1]))

\* the <title> written in a header piece
WrittenTitle(p) == IF p = PieceHeader THEN <<"A", "b">> ELSE <<"c", "-", "d">>

\* the items written in an items piece, without their markers
WrittenItems(p) == IF p = PieceTwoItems THEN << <<"e">>, <<"f">> >> ELSE << <<"g">> >>

RECURSIVE SectionsOf(_)
\* the sections of a draft of that form: the title and the items as written
SectionsOf(ps) ==
    IF ps = <<>> THEN <<>>
    ELSE LET init == SectionsOf(SubSeq(ps, 1, Len(ps) - 1))
             last == ps[Len(ps)]
         IN  IF IsHeaderPiece(last)
             THEN Append(init, [title |-> WrittenTitle(last), items |-> <<>>])
             ELSE [init EXCEPT ![Len(init)].items = @ \o WrittenItems(last)]

ExampleDraft == <<PieceHeader, PieceTwoItems, PieceHeader, PieceStarItem>>

\* two sections with 2 and 1 activity lines: two parsed days and a synthetic third
ExampleResult ==
    /\ Len(gen.days) = 3
    /\ gen.days[1] = [day |-> 1, title |-> <<"A", "b">>,
                      activities |-> << <<"e">>, <<"f">> >>]
    /\ gen.days[2] = [day |-> 2, title |-> <<"A", "b">>,
                      activities |-> << <<"g">> >>]
    /\ gen.days[3].day = 3
    /\ gen.days[3].title = ExploringTitle(3, location)

DurationShape(d) ==
    /\ Len(d) >= 6
    /\ SubSeq(d, Len(d) - 4, Len(d)) = <<" ", "D", "a", "y", "s">>
    /\ \A k \in 1..(Len(d) - 5) : Numeral(d[k])

C18_DayCount ==
    Returned =>
        LET k == MarkerCount(itineraryText)
            kept == IF k < 7 THEN k ELSE 7
            fragments == Fragments
        IN  /\ Len(gen.days) = (IF kept > 3 THEN kept ELSE 3)
            /\ \A n \in 1..kept : gen.days[n] = parseDay(n, fragments[n], location)
            /\ \A n \in (kept + 1)..Len(gen.days) :
                  gen.days[n].title = ExploringTitle(n, location)
            /\ k >= 3 => \A n \in 1..Len(gen.days) :
                              gen.days[n].title # ExploringTitle(n, location)

\* eight day markers: seven days, the eighth fragment is dropped
C18_Witness ==
    /\ Returned
    /\ MarkerCount(itineraryText) = 8
    /\ Len(gen.days) = 7
    /\ gen.days[7].day = 7

RECURSIVE WithoutLeadingColonsHyphens(_)
\* the line without the colons, hyphens and blanks it starts with
WithoutLeadingColonsHyphens(line) ==
    IF line # <<>> /\ (Head(line) \in {":", "-"} \/ Blank(Head(line)))
    THEN WithoutLeadingColonsHyphens(Tail(line))
    ELSE line

\* the first non-empty line of the fragment, leading colons and hyphens removed and
\* whitespace trimmed; <<>> when the fragment has no such line
LeadingStrippedTitle(fragment) ==
    LET lines == linesOf(Trim(fragment))
    IN  IF lines = <<>> THEN <<>>
        ELSE Trim(WithoutLeadingColonsHyphens(lines[1]))

\* the number of parsed days: the day markers of the text, at most 7
ParsedDayCount == IF MarkerCount(itineraryText) < 7 THEN MarkerCount(itineraryText) ELSE 7

\* C19: the title of the n-th parsed day is the first non-empty line of its fragment
\* with only its leading colons and hyphens removed and whitespace trimmed (colons
\* and hyphens inside the title are kept), or "Day <n> in <location>" when that is
\* empty; it is never empty.
C19_Title ==
    Returned =>
        LET fragments == Fragments
        IN  \A n \in 1..ParsedDayCount :
              /\ gen.days[n].title # <<>>
              /\ gen.days[n].title =
                   (IF LeadingStrippedTitle(fragments[n]) # <<>>
                    THEN LeadingStrippedTitle(fragments[n])
                    ELSE <<"D", "a", "y", " ", DigitChars[n + 1], " ", "i", "n", " ">>
                           \o location)

RECURSIVE WithoutLeadingMarkers(_)
\* the line without the hyphens, bullets, asterisks and blanks it starts with
WithoutLeadingMarkers(line) ==
    IF line # <<>> /\ (Head(line) \in {"-", Bullet, "*"} \/ Blank(Head(line)))
    THEN WithoutLeadingMarkers(Tail(line))
    ELSE line

\* the marker lines after the title line of the fragment, in order, each without
\* its leading markers and surrounding whitespace
MarkedTexts(fragment) ==
    LET marked == MarkedLinesAfterTitle(fragment)
    IN  [k \in 1..Len(marked) |-> Trim(WithoutLeadingMarkers(marked[k]))]

FirstFour(s) == SubSeq(s, 1, IF Len(s) < 4 THEN Len(s) ELSE 4)

\* C20 as stated: the activities of a parsed day with marker lines after its title
\* line are the first 4 of these lines, leading markers and whitespace removed.
C20_Original ==
    Returned =>
        LET fragments == Fragments
        IN  \A n \in 1..ParsedDayCount :
              MarkedTexts(fragments[n]) # <<>>
                  => gen.days[n].activities = FirstFour(MarkedTexts(fragments[n]))

\* C20 amended: the activities of a parsed day come from the lines after its title
\* line that contain a hyphen, a bullet or an asterisk: each without its leading
\* markers and whitespace, those that are empty after the removal left out, in
\* source order, limited to the first 4 that remain; when none remains the day has
\* the three fallback activities. The title line and the lines without a marker
\* are never activities.
C20_Activities ==
    Returned =>
        LET fragments == Fragments
        IN  \A n \in 1..ParsedDayCount :
              LET kept == SelectSeq(MarkedTexts(fragments[n]), LAMBDA a : a # <<>>)
              IN  IF kept # <<>>
                  THEN gen.days[n].activities = FirstFour(kept)
                  ELSE /\ Len(gen.days[n].activities) = 3
                       /\ gen.days[n].activities[3] =
                            <<"V", "i", "s", "i", "t", " ", "a", "t", "t", "r", "a",
                              "c", "t", "i", "o", "n", "s", " ", "m", "e", "n", "t",
                              "i", "o", "n", "e", "d", " ", "i", "n", " ", "t", "h",
                              "e", " ", "v", "i", "d", "e", "o">>

\* a day with five marker lines after its title line, the first of them " - ": the
\* activities are the other four
C20_Witness ==
    /\ Returned
    /\ draft = <<PieceMarkers, PieceSevenDays, PieceTwoItems, PieceTwoItems>>
    /\ Len(MarkedTexts(Fragments[2])) = 5
    /\ MarkedTexts(Fragments[2])[1] = <<>>
    /\ gen.days[2].title = <<"7", " ", "D", "A", "Y", "S">>
    /\ gen.days[2].activities = << <<"e">>, <<"f">>, <<"e">>, <<"f">> >>

\* "Explore <loc> highlights", "Experience local culture and cuisine", "Visit
\* attractions mentioned in the video"
ExploreList(loc) ==
    << <<"E", "x", "p", "l", "o", "r", "e", " ">> \o loc
           \o <<" ", "h", "i", "g", "h", "l", "i", "g", "h", "t", "s">>,
       <<"E", "x", "p", "e", "r", "i", "e", "n", "c", "e", " ", "l", "o", "c",
         "a", "l", " ", "c", "u", "l", "t", "u", "r", "e", " ", "a", "n", "d",
         " ", "c", "u", "i", "s", "i", "n", "e">>,
       <<"V", "i", "s", "i", "t", " ", "a", "t", "t", "r", "a", "c", "t", "i",
         "o", "n", "s", " ", "m", "e", "n", "t", "i", "o", "n", "e", "d", " ",
         "i", "n", " ", "t", "h", "e", " ", "v", "i", "d", "e", "o">> >>

\* "Discover <loc> attractions", "Local dining experiences", "Cultural
\* activities", "Relaxation and exploration time"
DiscoverList(loc) ==
    << <<"D", "i", "s", "c", "o", "v", "e", "r", " ">> \o loc
           \o <<" ", "a", "t", "t", "r", "a", "c", "t", "i", "o", "n", "s">>,
       <<"L", "o", "c", "a", "l", " ", "d", "i", "n", "i", "n", "g", " ", "e",
         "x", "p", "e", "r", "i", "e", "n", "c", "e", "s">>,
       <<"C", "u", "l", "t", "u", "r", "a", "l", " ", "a", "c", "t", "i", "v",
         "i", "t", "i", "e", "s">>,
       <<"R", "e", "l", "a", "x", "a", "t", "i", "o", "n", " ", "a", "n", "d",
         " ", "e", "x", "p", "l", "o", "r", "a", "t", "i", "o", "n", " ", "t",
         "i", "m", "e">> >>

\* the parsed days whose fragment has no marker line after its title line
DaysWithoutActivityLines ==
    LET fragments == Fragments
    IN  {n \in 1..ParsedDayCount : MarkedLinesAfterTitle(fragments[n]) = <<>>}

\* the days appended by the padding loop
PaddedDays == (ParsedDayCount + 1)..Len(gen.days)

\* C21 as stated: for one location, a padded day and a parsed day without activity
\* lines carry equal activity lists.
C21_Original ==
    Returned =>
        \A n \in DaysWithoutActivityLines, m \in PaddedDays :
            gen.days[m].activities = gen.days[n].activities

\* C21 amended: a parsed day without activity lines carries the three activities
\* "Explore <loc> highlights", "Experience local culture and cuisine", "Visit
\* attractions mentioned in the video"; a padded day carries the four activities
\* "Discover <loc> attractions", "Local dining experiences", "Cultural
\* activities", "Relaxation and exploration time"; within each kind the lists of
\* one location are equal, across the kinds they differ.
C21_TwoFixedLists ==
    Returned =>
        /\ \A n \in DaysWithoutActivityLines :
              gen.days[n].activities = ExploreList(location)
        /\ \A m \in PaddedDays : gen.days[m].activities = DiscoverList(location)
        /\ \A n \in DaysWithoutActivityLines, m \in PaddedDays :
              gen.days[m].activities # gen.days[n].activities

\* one day header without activity lines: day 1 is parsed, days 2 and 3 are padded
C21_Witness ==
    /\ Returned
    /\ draft = <<PieceHeader>>
    /\ DaysWithoutActivityLines = {1}
    /\ PaddedDays = {2, 3}
    /\ Len(gen.days[1].activities) = 3
    /\ Len(gen.days[2].activities) = 4

-----------------------------------------------------------------------------
(* Properties of the URL-analysis handler's parsing *)

\* C23: in the URL-analysis handler generateItinerary returns at least three
\* days for every itinerary text, also when the day-marker pattern matches
\* only once or twice.
C23_VariantAtLeastThreeDays ==
    Returned => Len(gen.days) >= 3

-----------------------------------------------------------------------------
(* Properties of cleanTikTokUrl, stated on the parts the string was made of *)

HttpSchemes == {<<"h", "t", "t", "p", "s", ":">>, <<"H", "T", "T", "P", ":">>}

StandardHosts == {<<"w", "w", "w", ".", "t", "i", "k", "t", "o", "k", ".", "c",
    "o", "m">>, <<"t", "i", "k", "t", "o", "k", ".", "c", "o", "m">>}

\* the string is a URL on tiktok.com or www.tiktok.com: under http and https the
\* host is read with or without the two slashes and in any letter case, under
\* another scheme only after the two slashes and as written
OnStandardHost ==
    \/ /\ urlParts.scheme \in HttpSchemes
       /\ urlParts.host \in StandardHosts \cup {<<"W", "W", "W", ".", "T", "i",
           "k", "T", "o", "k", ".", "c", "o", "m">>}
    \/ /\ urlParts.scheme = <<"a", "p", "p", ":">>
       /\ urlParts.slashes = <<"/", "/">>
       /\ urlParts.host \in StandardHosts

\* the path of the URL as the URL object gives it
ExpectedPathname ==
    CASE urlParts.path = <<>>
           -> IF urlParts.scheme \in HttpSchemes THEN <<"/">> ELSE <<>>
      [] urlParts.path = <<"/", "a", "/", ".", ".", "/", "b">> -> <<"/", "b">>
      [] urlParts.path = <<"/", "a", " ", "b">> -> <<"/", "a", "%", "2", "0",
          "b">>
      [] OTHER -> urlParts.path

ExpectedClean ==
    IF OnStandardHost THEN <<"h", "t", "t", "p", "s", ":", "/", "/", "w", "w",
        "w", ".", "t", "i", "k", "t", "o", "k", ".", "c", "o",
        "m">> \o ExpectedPathname
    ELSE urlString

\* a URL on a standard host, under a scheme other than http and https, with no path
PathlessOtherScheme ==
    /\ OnStandardHost
    /\ urlParts.scheme \notin HttpSchemes
    /\ urlParts.path = <<>>

-----------------------------------------------------------------------------
(* Properties of VideoProcessor *)

\* the step that belongs to a progress value
StepOf(p) == IF p \div 25 < 3 THEN p \div 25 ELSE 3

ProgressShape ==
    /\ progress \in 0..100
    /\ progress % 2 = 0
    /\ currentStep \in 0..3
    /\ currentStep = StepOf(progress)
    /\ ticks <= 50 => progress = 2 * ticks
    /\ ticks >= 50 => progress = 100 /\ currentStep = 3

\* C30: in every state progress is an even integer in 0..100 and currentStep is
\* min(floor(progress / 25), 3); every tick raises progress by 2 until it is 100,
\* neither value ever decreases, and from the 50th tick on progress is 100 and
\* currentStep is 3.
C30_Progress ==
    /\ []ProgressShape
    /\ [][/\ progress' >= progress
          /\ currentStep' >= currentStep
          /\ progress < 100 => progress' = progress + 2]_vars

\* the interval has fired sixty times
C30_Witness ==
    /\ ticks = 60
    /\ progress = 100
    /\ currentStep = 3

-----------------------------------------------------------------------------
(* Properties of the Index page *)

InvocationPending == submit = "invoking"

RefreshPending ==
    \E k \in 1..Len(selects) : selects[k].by = "submit" /\ selects[k].state # "done"

\* C26: isProcessing is true only while a process-tiktok invocation or the list
\* refresh that follows it is pending, and whenever a submit has set it to true
\* it is set back to false later, however the backend call ends.
C26_ProcessingEnds ==
    /\ [](isProcessing => InvocationPending \/ RefreshPending)
    /\ isProcessing ~> ~isProcessing

\* one submit has failed and one has succeeded, and the button is enabled again
C26_Witness ==
    /\ \E k \in 1..Len(toasts) : toasts[k] = "Processing failed"
    /\ \E k \in 1..Len(toasts) : toasts[k] = "Video processed successfully!"
    /\ ~isProcessing

\* the text of the URL field has a character that is not white space
NonBlankUrl == \E k \in 1..Len(tiktokUrl) : tiktokUrl[k] \notin {" ", "\n", "\t", "\r"}

\* a step starts an invocation of process-tiktok
InvocationStarts == submit # "invoking" /\ submit' = "invoking"

\* a step shows one of the two toasts of a refused submit
RefusalToast ==
    /\ Len(toasts') = Len(toasts) + 1
    /\ toasts'[Len(toasts')] \in {"Authentication Required", "Please enter a TikTok URL"}

\* C27: handleUrlSubmit invokes process-tiktok only when a user is signed in and
\* the URL is not blank after trimming; a submit that fails a check shows an
\* error toast and leaves isProcessing, currentItinerary, savedItineraries and
\* activeTab as they were.
C27_GuardedInvocation ==
    [][/\ InvocationStarts => signedIn /\ NonBlankUrl
       /\ RefusalToast =>
              /\ ~signedIn \/ ~NonBlankUrl
              /\ ~InvocationStarts
              /\ UNCHANGED <<isProcessing, currentItinerary, savedItineraries,
                             activeTab>>]_vars

\* a submit of a URL field that holds one space has been refused
C27_Witness ==
    /\ tiktokUrl = <<" ">>
    /\ toasts # <<>>
    /\ toasts[Len(toasts)] = "Please enter a TikTok URL"
    /\ submit = "idle"

\* a step shows the toast that ends a submit which reached the backend
ToastShown(title) ==
    /\ Len(toasts') = Len(toasts) + 1
    /\ toasts'[Len(toasts')] = title

\* the itinerary the backend returned last: the row it inserted last
ReturnedItinerary == Cardinality(table)

\* C28 as stated: when a submit that reached the backend ends in success,
\* currentItinerary is the itinerary the backend returned and activeTab is
\* "current"; when it ends in failure, currentItinerary is null and activeTab is
\* what it was.
C28_Original ==
    [][/\ ToastShown("Video processed successfully!") =>
              currentItinerary' = ReturnedItinerary /\ activeTab' = "current"
       /\ ToastShown("Processing failed") =>
              currentItinerary' = Null /\ activeTab' = activeTab]_vars

\* C28, amended: the submit clears currentItinerary when it starts the invocation,
\* a successful answer sets it to the returned itinerary, and the end of the
\* submit sets activeTab to "current" on success and changes neither value on
\* failure; in between handleSelectItinerary may have put a saved itinerary in
\* currentItinerary, which then stays.
C28_SubmitEffects ==
    [][/\ InvocationStarts => currentItinerary' = Null /\ activeTab' = activeTab
       /\ submit = "invoking" /\ submit' = "refreshing" =>
              /\ currentItinerary' = Cardinality(table')
              /\ currentItinerary' \notin table
              /\ activeTab' = activeTab
       /\ ToastShown("Video processed successfully!") =>
              /\ activeTab' = "current"
              /\ currentItinerary' = currentItinerary
              /\ currentItinerary # Null
       /\ ToastShown("Processing failed") =>
              /\ UNCHANGED <<currentItinerary, activeTab>>
              /\ currentItinerary = Null \/ currentItinerary \in table]_vars

\* a submit has failed while a saved itinerary, selected during the call, is shown
C28_Witness ==
    /\ toasts # <<>>
    /\ toasts[Len(toasts)] = "Processing failed"
    /\ currentItinerary # Null
    /\ submit = "idle"

\* the number of submits that ended with the success toast: the backend has
\* inserted the rows 1 to that number for them
SuccessesShown ==
    Cardinality({k \in 1..Len(toasts) : toasts[k] = "Video processed successfully!"})

InSavedList(id) == \E k \in 1..Len(savedItineraries) : savedItineraries[k] = id

\* C29: once the success toast of a submit has been shown, the itinerary of that
\* submit is in savedItineraries and stays there: the list comes from a select
\* issued after the insert, no answer of an earlier select replaces it, and a
\* failed refresh is not reported as success.
C29_SavedListFresh ==
    \A id \in 1..SuccessesShown : InSavedList(id)

-----------------------------------------------------------------------------
(* Properties of the handler *)

\* a request other than the preflight has been answered
Answered == pc = "done" /\ req.method # "OPTIONS"

HasWord(message, word) == \E k \in 1..Len(message) : message[k] = word

MentionsAuthorization(message) ==
    HasWord(message, "Authorization") \/ HasWord(message, "authorization")

NoVideoUrl == req.videoUrl = Undefined \/ req.videoUrl = <<>>

ConfigurationComplete ==
    {"SUPABASE_URL", "SUPABASE_ANON_KEY", "OPENAI_API_KEY", "GOOGLE_CLOUD_API_KEY"}
        \subseteq env

IsError(response) == response.status = 500 /\ DOMAIN response.body = {"error"}

\* C8 as stated: no videoUrl gives a 500 whose message contains "required"; a
\* videoUrl without Authorization header gives a 500 that mentions authorization.
C8_Original ==
    (Answered /\ req.json) =>
        /\ NoVideoUrl
              => /\ IsError(responses[1])
                 /\ HasWord(responses[1].body.error, "required")
        /\ (~NoVideoUrl /\ req.auth = "null")
              => /\ IsError(responses[1])
                 /\ MentionsAuthorization(responses[1].body.error)

\* C8 amended: a JSON body without videoUrl gives the 500 "Video URL is required";
\* a videoUrl without Authorization header gives the 500 "Authorization required"
\* when the service configuration is complete, and a 500 naming the missing
\* configuration, not the authorization, when it is not.
C8_MissingInput ==
    (Answered /\ req.json) =>
        /\ NoVideoUrl
              => /\ IsError(responses[1])
                 /\ responses[1].body.error = <<"Video", "URL", "is", "required">>
        /\ (~NoVideoUrl /\ req.auth = "null")
              => /\ IsError(responses[1])
                 /\ ConfigurationComplete
                       => responses[1].body.error = <<"Authorization", "required">>
                 /\ ~ConfigurationComplete
                       => /\ ~MentionsAuthorization(responses[1].body.error)
                          /\ \/ HasWord(responses[1].body.error, "configuration")
                             \/ HasWord(responses[1].body.error, "configured")

\* a videoUrl, a complete configuration and no Authorization header
C8_Witness ==
    /\ Answered
    /\ req.json
    /\ ~NoVideoUrl
    /\ ConfigurationComplete
    /\ req.auth = "null"
    /\ responses[1].body.error = <<"Authorization", "required">>

\* the message of the earliest failing precondition of an answered request whose
\* body was read, <<>> when all four hold
EarliestFailure ==
    CASE NoVideoUrl -> <<"Video", "URL", "is", "required">>
      [] ~NoVideoUrl /\ ~({"SUPABASE_URL", "SUPABASE_ANON_KEY"} \subseteq env)
           -> <<"Supabase", "configuration", "is", "missing">>
      [] ~NoVideoUrl /\ {"SUPABASE_URL", "SUPABASE_ANON_KEY"} \subseteq env
           /\ "OPENAI_API_KEY" \notin env
           -> <<"OpenAI", "API", "key", "is", "not", "configured">>
      [] ~NoVideoUrl /\ {"SUPABASE_URL", "SUPABASE_ANON_KEY", "OPENAI_API_KEY"}
                           \subseteq env
           /\ "GOOGLE_CLOUD_API_KEY" \notin env
           -> <<"Google", "Cloud", "Vision", "API", "key", "is", "not", "configured">>
      [] ~NoVideoUrl /\ ConfigurationComplete /\ req.auth = "null"
           -> <<"Authorization", "required">>
      [] ~NoVideoUrl /\ ConfigurationComplete /\ req.auth # "null" /\ user = "null"
           -> <<"Invalid", "authentication">>
      [] OTHER -> <<>>

PreconditionsHold ==
    /\ req.json
    /\ ~NoVideoUrl
    /\ ConfigurationComplete
    /\ req.auth # "null"
    /\ user = "u1"

\* C9: the preconditions are checked in the order videoUrl, configuration,
\* Authorization header, user; the error returned is that of the earliest failing
\* one, and no download, AI call or insert is made unless all of them hold (the
\* user lookup itself is made only once the first three hold).
C9_PreconditionOrder ==
    /\ \A k \in 1..Len(calls) :
          /\ calls[k] # "auth.getUser" => PreconditionsHold
          /\ calls[k] = "auth.getUser"
                => (req.json /\ ~NoVideoUrl /\ ConfigurationComplete
                      /\ req.auth # "null")
    /\ (Answered /\ req.json /\ EarliestFailure # <<>>)
          => /\ IsError(responses[1])
             /\ responses[1].body.error = EarliestFailure
             /\ rows = <<>>

\* no videoUrl, no configuration and no Authorization header at once
C9_Witness ==
    /\ Answered
    /\ req.json
    /\ NoVideoUrl
    /\ env = {}
    /\ req.auth = "null"
    /\ responses[1].body.error = <<"Video", "URL", "is", "required">>
    /\ calls = <<>>

\* C10: a request other than the preflight is answered once, with status 200 and
\* {success: true, itinerary} when the row was inserted and with status 500 and
\* {error: <non-empty message>} after any failure; until it is answered the
\* handler can take a step.
C10_OneResponse ==
    /\ Len(responses) <= 1
    /\ pc = "done" <=> Len(responses) = 1
    /\ pc # "done" => ENABLED Next
    /\ Answered =>
          /\ responses[1].status \in {200, 500}
          /\ responses[1].status = 200
                => /\ DOMAIN responses[1].body = {"success", "itinerary"}
                   /\ responses[1].body.success = TRUE
                   /\ Len(rows) = 1
                   /\ PreconditionsHold
          /\ responses[1].status = 500
                => /\ DOMAIN responses[1].body = {"error"}
                   /\ responses[1].body.error # <<>>
          /\ (rows = <<>> \/ ~PreconditionsHold) => responses[1].status = 500

\* the itinerary call threw an Error without message: the default message is sent
C10_Witness ==
    /\ Answered
    /\ calls # <<>>
    /\ calls[Len(calls)] = "openai itinerary"
    /\ IsError(responses[1])
    /\ responses[1].body.error = <<"Failed", "to", "process", "video">>


\* the last outbound call of the request and how it ended
LastCall == calls[Len(calls)]
LastOutcome == outcomes[Len(outcomes)]

\* C11: a request leaves exactly 1 row in itineraries when its response is the
\* success and 0 rows when its response is an error; the insert is the last call
\* of the chain, made at most once, and nothing is persisted before it.
C11_InsertLast ==
    /\ Len(rows) <= 1
    /\ \A k \in 1..Len(calls) : calls[k] = "insert" => k = Len(calls)
    /\ rows # <<>> => (pc = "done" /\ calls # <<>> /\ LastCall = "insert")
    /\ Answered =>
          /\ responses[1].status = 200 => Len(rows) = 1
          /\ IsError(responses[1]) => rows = <<>>
          /\ responses[1].status = 200 \/ IsError(responses[1])

\* the insert itself failed: an error response and no row
C11_Witness ==
    /\ Answered
    /\ calls # <<>>
    /\ LastCall = "insert"
    /\ LastOutcome = "error"
    /\ IsError(responses[1])
    /\ responses[1].body.error = <<"Failed", "to", "save", "itinerary">>
    /\ rows = <<>>

\* C12: an OPTIONS request is answered with status 200, no body and exactly the two
\* CORS headers, whatever its body, its Authorization header and the configuration;
\* nothing is validated, no user is looked up, no outbound call is made and no row
\* is inserted.
C12_Preflight ==
    req.method = "OPTIONS" =>
        /\ calls = <<>>
        /\ rows = <<>>
        /\ user = "unknown"
        /\ pc \in {"start", "done"}
        /\ pc = "start" => (responses = <<>> /\ ENABLED Preflight)
        /\ pc = "done" =>
              responses =
                << [status |-> 200,
                    headers |->
                      [AccessControlAllowOrigin |-> "*",
                       AccessControlAllowHeaders |->
                         "authorization, x-client-info, apikey, content-type"],
                    body |-> "null"] >>

\* an OPTIONS request without JSON body, without Authorization header, and with no
\* configuration at all, is answered with 200
C12_Witness ==
    /\ req.method = "OPTIONS"
    /\ ~req.json
    /\ req.auth = "null"
    /\ env = {}
    /\ pc = "done"
    /\ responses[1].status = 200

\* C13: on success the inserted row has the id of the user resolved from the token,
\* the videoUrl as submitted (not the cleaned URL that was downloaded), the title,
\* location, duration and day list generateItinerary returned and the
\* transcription, caption and screen text of the content acquisition; the response
\* carries the values of that row, with its generated id and created_at.
C13_PersistedRow ==
    (Answered /\ responses[1].status = 200) =>
        LET row == rows[1]
            answer == responses[1].body.itinerary
        IN  /\ req.auth = "Bearer u1"
            /\ user = "u1"
            /\ row.user_id = "u1"
            /\ row.video_url = req.videoUrl
            /\ row.title = itinerary.title
            /\ row.location = itinerary.location
            /\ row.duration = itinerary.duration
            /\ row.itinerary_content = itinerary.content
            /\ row.transcription = analysis.transcription
            /\ row.caption_text = analysis.caption
            /\ row.screen_text = analysis.screenText
            /\ answer = [id |-> row.id,
                         title |-> row.title,
                         location |-> row.location,
                         duration |-> row.duration,
                         videoUrl |-> row.video_url,
                         transcription |-> row.transcription,
                         itinerary |-> row.itinerary_content,
                         createdAt |-> row.created_at]
            /\ row.id = 1
            /\ row.created_at = "now"

TrackedUrl == <<"h", "t", "t", "p", "s", ":", "/", "/", "w", "w", "w", ".",
    "t", "i", "k", "t", "o", "k", ".", "c", "o", "m", "/", "@", "u", "/", "v",
    "i", "d", "e", "o", "/", "1", "?", "x", "=", "1">>

\* the submitted URL carries a query string: the download used the URL without it,
\* the row and the response carry the URL with it
C13_Witness ==
    /\ Answered
    /\ responses[1].status = 200
    /\ req.videoUrl = TrackedUrl
    /\ video.url = <<"h", "t", "t", "p", "s", ":", "/", "/", "w", "w", "w",
        ".", "t", "i", "k", "t", "o", "k", ".", "c", "o", "m", "/", "@", "u",
        "/", "v", "i", "d", "e", "o", "/", "1">>
    /\ rows[1].video_url = TrackedUrl
    /\ responses[1].body.itinerary.videoUrl = TrackedUrl
    /\ Len(rows[1].itinerary_content) = 3

\* the operation of the chain an outbound call belongs to: yt-dlp and the fallback
\* fetch are the two halves of the download
ChainOperation(call) ==
    IF call \in {"yt-dlp", "fetch video"} THEN "download" ELSE call

\* the call ended with a non-2xx answer, an exception or malformed JSON
CallFailed(k) == outcomes[k] \notin {"ok", "no content"}

\* call k failed and no later call of the same operation made up for it
OperationFailed(k) ==
    /\ CallFailed(k)
    /\ \A j \in (k + 1)..Len(calls) :
          ChainOperation(calls[j]) = ChainOperation(calls[k]) => CallFailed(j)

\* C15: once an operation of the chain (download, transcription, vision analysis,
\* travel-info extraction, itinerary generation, insert) has failed, no later
\* operation of the chain is performed, and no call is made a second time.
C15_AbortOnFailure ==
    /\ \A k \in 1..Len(calls) :
          OperationFailed(k) =>
              \A j \in (k + 1)..Len(calls) :
                  ChainOperation(calls[j]) = ChainOperation(calls[k])
    /\ \A j, k \in 1..Len(calls) : calls[j] = calls[k] => j = k

Made(call) == \E k \in 1..Len(calls) : calls[k] = call

\* the content acquisition has run and gave no location
NoLocationFound ==
    /\ Made("openai extract")
    /\ analysis.location \in {<<>>, UnknownLocation}

\* C16: when the content acquisition yields no location (empty, or "Unknown
\* Location"), the request is answered with an error before the itinerary call to
\* the language model and before any insert; no row has such a location.
C16_NoLocationAborts ==
    /\ \A n \in 1..Len(rows) : rows[n].location \notin {<<>>, UnknownLocation}
    /\ NoLocationFound =>
          /\ ~Made("openai itinerary")
          /\ ~Made("insert")
          /\ rows = <<>>
          /\ pc \in {"generate", "done"}
          /\ pc = "generate" => ENABLED GenerateNoLocation
          /\ pc = "done" =>
                /\ IsError(responses[1])
                /\ responses[1].body.error = LocationUnknownError

\* the extraction call answered 200 with a JSON object that has no location
C16_Witness ==
    /\ Answered
    /\ NoLocationFound
    /\ LastCall = "openai extract"
    /\ LastOutcome = "ok"
    /\ IsError(responses[1])
    /\ HasWord(responses[1].body.error, "location")

\* the request failed after this call, which an external API answered with a
\* non-2xx status
FailedOnStatusOf(call) ==
    /\ Answered
    /\ IsError(responses[1])
    /\ calls # <<>>
    /\ LastCall = call
    /\ LastOutcome \in {"403", "500"}

\* C17: when a request fails because the download, the Whisper transcription, the
\* travel-info extraction or the itinerary generation answered with a non-2xx
\* status, the error message returned to the caller contains that status.
C17_StatusInMessage ==
    \A call \in {"fetch video", "openai whisper", "openai extract", "openai itinerary"} :
        FailedOnStatusOf(call) => HasWord(responses[1].body.error, LastOutcome)

\* C22: a vision call that is answered with a non-2xx status or throws never aborts
\* the request: the screen text is a fixed fallback string ("No screen text
\* detected" after a non-2xx answer, "Screen text analysis unavailable" after an
\* exception), no response is sent at that point and the next call of the chain is
\* the travel-info extraction.
C22_VisionNeverAborts ==
    \A k \in 1..Len(calls) :
        (calls[k] = "openai vision" /\ outcomes[k] \in {"403", "500", "throws"}) =>
            /\ analysis.screenText =
                 (IF outcomes[k] = "throws" THEN "Screen text analysis unavailable"
                  ELSE "No screen text detected")
            /\ k = Len(calls) =>
                  /\ pc = "extract"
                  /\ responses = <<>>
                  /\ ENABLED (\E outcome \in ExtractOutcomes :
                                \E info \in travelInfos(outcome) :
                                    ExtractTravelInfo(outcome, info))
            /\ k < Len(calls) => calls[k + 1] = "openai extract"

\* the vision call answered 500 and the request still ended with the success
\* response, its row carrying the fallback screen text
C22_Witness ==
    /\ Answered
    /\ responses[1].status = 200
    /\ \E k \in 1..Len(calls) : calls[k] = "openai vision" /\ outcomes[k] = "500"
    /\ LastCall = "insert"
    /\ rows[1].screen_text = "No screen text detected"

\* what yt-dlp's error output says about a video that cannot be had
Unobtainable == {"private", "restricted", "not available"}

\* yt-dlp has exited non-zero with such an error output
YtDlpSaidUnobtainable ==
    \E k \in 1..Len(calls) : calls[k] = "yt-dlp" /\ outcomes[k] \in Unobtainable

\* the specific errors named for these outputs
SpecificDownloadErrors ==
    {analysisFailed(<<"This", "TikTok", "video", "is", "private", "or", "restricted",
                      "and", "cannot", "be", "processed">>),
     analysisFailed(<<"This", "TikTok", "video", "is", "not", "available", "or",
                      "has", "been", "removed">>)}

\* C24: when yt-dlp exits non-zero and its error output says the video is
\* private, restricted or not available, the fallback download is not attempted
\* and the request fails with the specific error for that output; the fallback
\* download is attempted only after other yt-dlp failures.
C24_SpecificErrorNoFallback ==
    YtDlpSaidUnobtainable =>
        /\ ~Made("fetch video")
        /\ Answered => /\ responses[1].status = 500
                       /\ responses[1].body.error \in SpecificDownloadErrors

-----------------------------------------------------------------------------
(* Properties of two concurrent downloads *)

\* C14: concurrent requests are isolated: the bytes a request transcribes are the
\* bytes it downloaded itself for its own URL, in every interleaving of two
\* requests, also when both compute their temporary path in the same millisecond.
C14_Isolation ==
    \A i \in DOMAIN dl :
        dl[i].pc = "transcribed" =>
            /\ dl[i].data.url = dl[i].url
            /\ dl[i].data.by = i
====
